---- MODULE Spec2Model ----
(***************************************************************************)
(* Voice gateway (gateway/main.py, gateway/gateway_control_client.py,      *)
(* gateway/stt_sidecar_client.py): the session state shared by the asyncio *)
(* loop and the audio-callback thread, the TTS producer/consumer pipeline, *)
(* the VAD manager's barge-in gate, the debounced start_tts path, the idle *)
(* loop, and the orchestrator control client with its reconnect supervisor.*)
(*                                                                         *)
(* Granularity.  A coroutine runs without interruption by other coroutines *)
(* between two awaits that really suspend, so every loop-thread action is  *)
(* one such stretch of code.  `await ws_queue.put(..)` (unbounded queue)   *)
(* and `await orch.send_tts_event(..)` (no await inside) never suspend.    *)
(* The audio callback and the TTS producer run on OS threads and           *)
(* interleave with the loop; on_frame is cut where it re-reads the shared  *)
(* state dict (lines 444-493, then 541-565).                               *)
(*                                                                         *)
(* Left out of the session state: the frame queue's depth (the queue is    *)
(* represented by what queue.get() returns), the adaptive prebuffer depth, *)
(* tts_started_ts_ms and first_audio_ms, metrics and logs.  Of the VAD     *)
(* counters the gate records the one it increments.  The pipelines write   *)
(* min_start_frames of the VAD they share with the audio thread.  The      *)
(* session plays through the streaming path (ELEVENLABS_STREAMING on, the  *)
(* default).                                                               *)
(*                                                                         *)
(* Four specifications share the session's actions: Spec (TTS lifecycle),  *)
(* BargeSpec (pipelines with the audio thread and the clock), GateSpec     *)
(* (the gate and its knobs during the greeting) and CtlSpec (the control   *)
(* client); CtlFairSpec is CtlSpec with a supervisor that keeps polling,   *)
(* and SuperSpec is the supervisor with reconnect attempts that fail,      *)
(* their backoff, and TTS events enqueued whatever the connection's state. *)
(* The other components each have a variable and a specification of their  *)
(* own: ProcSpec (main() from its first line to the exit code, the idle    *)
(* loop with its clock in seconds included), FrameSpec (the TTS producer's *)
(* byte handling, its queue, and the frames of both playback paths),       *)
(* PaceSpec (the monotonic schedule of both pacing loops, in ms), RingSpec *)
(* (RingBuffer), VadSpec (VADState.process_frame), PrebufSpec (the         *)
(* prebuffer depth from one run of tts_streaming_play to the next) and     *)
(* AudioSpec (handle_frame: ring, VAD, the STT utterance and its batcher,  *)
(* in `mgr`, with the frames given to the batcher in mgr.batched).         *)
(***************************************************************************)
EXTENDS Integers, Sequences, FiniteSets, TLC

\* ------------------------------------------------------------ bounds
MaxStartTts == 2      \* start_tts commands received in one run
MaxFrames == 2        \* PCM frames one TTS stream delivers at most
MaxVadStarts == 1     \* VAD 'start' events handled in one run
BargeStartTts == 1    \* start_tts commands in the barge-in specification
BargeTicks == 1       \* clock ticks in the barge-in specification
MaxCmds == 1          \* other inbound commands (stop_tts, arm_barge_in, policy, interim)
MaxTicks == 2         \* clock ticks in one run
TickMs == 1200        \* milliseconds per clock tick
EpochOffset == 1000000 \* time.time() minus time.monotonic(), in ms
MaxRmsSamples == 1    \* RMS samples kept in state['rms_samples']
MaxChunks == 3        \* HTTP chunks one TTS response delivers at most
MaxPush == 5          \* RingBuffer.push calls in one run
MaxPlays == 3         \* runs of tts_streaming_play in one session
MaxVadFrames == 6     \* frames one VADState processes in one run
MaxAudioFrames == 7   \* frames handle_frame is given in one run
MaxIdleSecs == 4      \* seconds the idle loop is followed for

\* ------------------------------------------------- program constants
DefaultGuardMs == 1200        \* LOCAL_STOP_GUARD_MS
DefaultMinRms == 1200         \* LOCAL_STOP_MIN_RMS
InterimWindowMs == 600        \* LOCAL_STOP_INTERIM_WINDOW_MS
MinInterimLen == 10           \* LOCAL_STOP_MIN_INTERIM_LEN
RmsSampleGapMs == 1000        \* rms_samples: at most one sample per second
FrameBytes == 1920            \* 20 ms of PCM16 mono at 48 kHz
PrebufferMin == 10            \* prebuffer_target = max(10, min(25, ...))
PrebufferMax == 25
PrebufferDefault == 15        \* state.get('tts_prebuffer_frames_next', 15)
PrebufferUp == 2              \* after an underrun: prebuffer_target + 2
PrebufferDown == 1            \* otherwise: prebuffer_target - 1
VadFrameMs == 20              \* VADState(frame_ms=20)
MinBurstFrames == 6           \* VADState.min_burst_frames
DefaultMinStartFrames == 2    \* VADState.min_start_frames
MinStartFramesWhileTts == 10  \* WORKER_VAD_MIN_START_FRAMES_WHILE_TTS
SttMinRms == 50               \* STT_MIN_RMS
SttCooldownMs == 200          \* STT_SUPPRESSION_COOLDOWN_MS
BatchMs == 100                \* STT_BATCH_MS
BytesPerMs == 32              \* FrameBatcher._bytes_per_ms: 16 kHz mono, 2 bytes
SilenceFloor == 20            \* STT_SILENCE_RMS_FLOOR

Greeting == 0
SttUtt == -2                  \* the id "utt-<ms>" on_frame gives an STT utterance
Utt == 0..MaxStartTts
QuietRms == {400}
LoudRms == {2500}
RmsValues == QuietRms \cup LoudRms
ArmGuardValues == {0, 2400}
ArmMinRmsValues == {0, 3000}
InterimLens == {3, 15}

VARIABLES
  now,          \* clock ticks elapsed
  state,        \* the shared session dict `state` of main()
  stop_event,   \* asyncio.Event stop_event: is_set()
  posted,       \* callbacks loop.call_soon_threadsafe(stop_event.set) not yet run
  mainPc,       \* position of main(): before the greeting, in it, in the idle loop
  pipe,         \* per utterance: the task playing it and tts_streaming_play's locals
  audioPc,      \* position of the audio thread inside VADManager.on_frame
  loc,          \* on_frame's locals for the VAD start being handled
  gate,         \* outcome of the last barge-in gate decision
  obs,          \* per utterance: the events put on ws_queue (observer channel)
  orch_tts,     \* per utterance: the TTS events sent to the orchestrator
  hist,         \* per utterance: history used to state the properties
  nStart, nVad, nCmd,  \* inputs consumed so far
  require_interim,     \* environment: LOCAL_STOP_REQUIRE_INTERIM is on
  ctl,          \* the GatewayControlClient object and its tasks
  net,          \* the control streams opened so far: up, eos (closed by the server), err
  wire,         \* per control stream: the events written to the orchestrator
  proc,         \* the process: position of main() from start to exit, and the exit code
  producer,     \* one run of _producer_stream_elevenlabs, its frame queue and the consumer's sends
  playback,     \* one run of playback_task (fetch-then-play)
  ring,         \* a RingBuffer object
  vad,          \* a VADState object, the wall clock of its frames, and its last event
  prebuf,       \* the prebuffer depth: the setting, state['tts_prebuffer_frames_next'],
                \* and the runs of tts_streaming_play that read and adapt it
  mgr           \* the VADManager object's STT side with the FrameBatcher it feeds

sessVars == <<now, state, stop_event, posted, mainPc, pipe, audioPc, loc, gate,
              obs, orch_tts, hist, nStart, nVad, nCmd, require_interim>>

ctlVars == <<ctl, net, wire>>

\* The components checked on their own
unitVars == <<proc, producer, playback, ring, vad, prebuf, mgr>>

\* The components the TTS pipelines never touch (they write vad.min_start_frames)
idleUnits == <<proc, producer, playback, ring, prebuf, mgr>>

vars == <<sessVars, ctlVars, unitVars>>

\* ----------------------------------------------------------- clocks
\* int(time.time() * 1000): the wall clock, epoch milliseconds
WallMs == EpochOffset + now * TickMs

Max(a, b) == IF a >= b THEN a ELSE b
Min(a, b) == IF a <= b THEN a ELSE b

\* ------------------------------------------------------------ helpers
\* sorted(values): insertion into an ascending sequence
RECURSIVE Sorted(_)
Sorted(s) ==
  IF s = <<>> THEN <<>>
  ELSE LET rest == Sorted(Tail(s))
           lo == SelectSeq(rest, LAMBDA x: x <= Head(s))
           hi == SelectSeq(rest, LAMBDA x: x > Head(s))
       IN lo \o <<Head(s)>> \o hi

\* int(round(num / 10)) as Python rounds: half to even
RoundTenth(num) ==
  LET q == num \div 10
      r == num % 10
  IN IF r > 5 \/ (r = 5 /\ q % 2 = 1) THEN q + 1 ELSE q

\* vv[k] with k = max(0, min(len(vv)-1, int(round(0.9*(len(vv)-1)))))
P90(values) ==
  LET vv == Sorted(values)
      n == Len(vv)
      k == Max(0, IF RoundTenth(9 * (n - 1)) < n - 1 THEN RoundTenth(9 * (n - 1)) ELSE n - 1)
  IN vv[k + 1]

\* Twice the dynamic threshold: max(min_rms, p90 * 1.5 + 200.0) while TTS is
\* active and samples exist, else min_rms (doubled to stay in the integers).
DynThresh2(min_rms, tts_active, rms_vals) ==
  IF tts_active /\ rms_vals # <<>>
  THEN Max(2 * min_rms, 3 * P90(rms_vals) + 400)
  ELSE 2 * min_rms

\* guard_ok = (armed_ts > 0) and (now_ms - armed_ts >= guard_ms)
GuardOk(now_ms, armed_ts, guard_ms) ==
  armed_ts > 0 /\ now_ms - armed_ts >= guard_ms

\* interim_ok = (now_ms - last_interim_ts) <= interim_win_ms and last_interim_len >= min_interim_len,
\* evaluated only when LOCAL_STOP_REQUIRE_INTERIM is on and TTS is active
InterimOk(require, now_ms, tts_active, last_interim_ts, last_interim_len) ==
  IF require /\ tts_active
  THEN now_ms - last_interim_ts <= InterimWindowMs /\ last_interim_len >= MinInterimLen
  ELSE TRUE

\* The gate without its guard conjunct
GateAllowsNoGuard(enabled, armed, guard_ok, rms, dyn2, interim_ok) ==
  enabled /\ armed /\ 2 * rms >= dyn2 /\ interim_ok

\* The gate of on_frame: which branch the VAD start takes
GateAllows(enabled, armed, guard_ok, rms, dyn2, interim_ok) ==
  enabled /\ armed /\ guard_ok /\ 2 * rms >= dyn2 /\ interim_ok

GateOutcome(enabled, armed, guard_ok, rms, dyn2, interim_ok) ==
  IF GateAllows(enabled, armed, guard_ok, rms, dyn2, interim_ok) THEN "triggered"
  ELSE IF ~guard_ok THEN "guard"
  ELSE IF 2 * rms < dyn2 THEN "energy"
  ELSE IF ~interim_ok THEN "interim"
  ELSE "none"

\* counters[...] += 1 in the branch the VAD start takes
GateCounter(outcome) ==
  CASE outcome = "triggered" -> "vad_stops_allowed"
    [] outcome = "guard" -> "vad_suppressed_guard"
    [] outcome = "energy" -> "vad_suppressed_energy"
    [] outcome = "interim" -> "vad_suppressed_energy"
    [] OTHER -> "none"

\* ------------------------------------------------------- initial state
InitState ==
  [ speaking |-> FALSE,
    active_utterance_id |-> -1,          \* '' (no utterance)
    speaking_armed |-> FALSE,
    speaking_armed_ts_ms |-> 0,
    last_vad_ts_ms |-> 0,
    tts_stop_emitted |-> FALSE,
    local_stop_enabled |-> TRUE,
    local_stop_guard_ms |-> DefaultGuardMs,
    local_stop_min_rms |-> DefaultMinRms,
    stt_last_interim_ts_ms |-> 0,
    stt_last_interim_len |-> 0,
    rms_samples |-> <<>>,
    rms_last_sample_ts |-> 0,
    tts_accum_buf |-> <<>> ]

\* tts_streaming_play's locals for one utterance, and the task running it
NoPipe ==
  [ pc |-> "none",              \* none, debounce, prebuffer, get, pace, pace_woken, cleanup_wait, done
    cancelled |-> FALSE,        \* task.cancel() called, CancelledError not yet raised
    prod |-> "none",            \* producer thread: none, running, done (sentinel put, returned)
    stop_flag |-> FALSE,
    sent_frames |-> 0,
    first_audio_emitted |-> FALSE,
    completed_normally |-> FALSE,
    underruns |-> 0 ]

\* The last gate decision: the handler's locals, what it read from `state` at the
\* gate, and the utterances in their prebuffer or play phase at that moment
NoGate == [ outcome |-> "none", at_ms |-> 0, rms |-> 0, guard_ms |-> 0, guard_ok |-> FALSE,
            min_rms |-> 0, dyn2 |-> 0, tts_active |-> FALSE, interim_ts |-> 0,
            interim_len |-> 0, interim_ok |-> FALSE, enabled |-> FALSE, armed |-> FALSE,
            playing |-> {}, first_pub |-> [u \in Utt |-> 0],
            counter |-> "none" ]       \* the key of state['vad_counters'] incremented

InitSess ==
  /\ now = 0
  /\ state = InitState
  /\ stop_event = FALSE
  /\ posted = 0
  /\ mainPc = "start"
  /\ pipe = [u \in Utt |-> NoPipe]
  /\ audioPc = "idle"
  /\ loc = [ now_ms |-> 0, rms |-> 0, guard_ms |-> 0, guard_ok |-> FALSE, min_rms |-> 0,
            dyn2 |-> 0, tts_active |-> FALSE, interim_ts |-> 0, interim_len |-> 0,
            interim_ok |-> FALSE ]
  /\ gate = NoGate
  /\ obs = [u \in Utt |-> <<>>]
  /\ orch_tts = [u \in Utt |-> <<>>]
  /\ hist = [u \in Utt |->
      [ started |-> FALSE,          \* tts_started logged for this utterance
        text |-> <<>>,              \* start_tts texts joined into it
        first_pub_ms |-> 0,         \* wall time of its first published frame (0: none)
        vad_during |-> FALSE,       \* a VAD start was handled between its start and its end
        stop_raised |-> FALSE,      \* stop_event.set() while in prebuffer/play, sentinel not dequeued
        stop_at_emit |-> FALSE,     \* stop_event.is_set() when tts_stopped was emitted
        sentinel |-> FALSE,         \* the sentinel was dequeued
        ended |-> FALSE ] ]         \* tts_streaming_play was left
  /\ nStart = 0 /\ nVad = 0 /\ nCmd = 0

\* Utterances in their prebuffer or play phase
InPlay(pp) == {u \in Utt : pp[u].pc \in {"prebuffer", "get", "pace", "pace_woken"}}
\* Utterances whose tts_streaming_play has not returned
Running(pp) == {u \in Utt : pp[u].pc \in {"prebuffer", "get", "pace", "pace_woken", "cleanup_wait"}}

\* asyncio.Event.set(): the flag, and every task waiting on it is made ready
WakePipes(pp) ==
  [u \in Utt |-> IF pp[u].pc = "pace" THEN [pp[u] EXCEPT !.pc = "pace_woken"] ELSE pp[u]]
WakeMain(m) == IF m = "idle_wait" THEN "idle_woken" ELSE m
MarkStopRaised(hh, pp) ==
  [u \in Utt |-> IF u \in InPlay(pp) THEN [hh[u] EXCEPT !.stop_raised = TRUE] ELSE hh[u]]

\* ------------------------------------------- TTS producer (OS thread)
\* The frame queue is represented by what queue.get() can return to the consumer:
\* a frame while the stream has frames left, the sentinel once the producer has
\* put it, a timeout while the producer is still running.

\* _producer_stream_elevenlabs: the stream ends, the stop flag is seen, or an
\* exception is caught: the sentinel is put and start_producer returns
ProducerEnd(u) ==
  /\ u \in Running(pipe)
  /\ pipe[u].prod = "running"
  /\ pipe' = [pipe EXCEPT ![u].prod = "done"]
  /\ UNCHANGED <<now, state, stop_event, posted, mainPc, audioPc, loc, gate, obs, orch_tts,
                 hist, nStart, nVad, nCmd, require_interim, ctl, net, wire, unitVars>>

\* --------------------------------------- TTS consumer (tts_streaming_play)
\* vad.min_start_frames = n, written by main() on the VADState it created
WithMinStartFrames(v, n) == [v EXCEPT !.min_start_frames = n, !.min_changed = TRUE]

\* The caller's finally, on the VAD engine: main() restores min_start_frames
\* after the greeting, _flush_tts_accum leaves the engine alone
CallerFinallyVad(u, v) ==
  IF u = Greeting THEN WithMinStartFrames(v, DefaultMinStartFrames) ELSE v

\* The finally of the task that called tts_streaming_play: main() for the
\* greeting, _flush_tts_accum for an orchestrator-driven utterance
CallerFinally(u, st) ==
  IF u = Greeting
  THEN [st EXCEPT !.speaking = FALSE, !.active_utterance_id = -1, !.tts_stop_emitted = FALSE]
  ELSE [st EXCEPT !.speaking = FALSE, !.active_utterance_id = -1]

\* After the producer wait: drain the queue, publish the queue-peak event, disarm,
\* clear the stop signal; then the caller's finally
CleanupRest(u, pp, st, oo, ot, hh, mp) ==
  /\ pipe' = [pp EXCEPT ![u] = [NoPipe EXCEPT !.pc = "done", !.prod = pp[u].prod,
                                              !.stop_flag = pp[u].stop_flag]]
  /\ obs' = [oo EXCEPT ![u] = Append(@, [type |-> "tts_queue_peak_frames"])]
  /\ orch_tts' = ot
  /\ state' = CallerFinally(u, [st EXCEPT !.speaking_armed = FALSE])
  /\ stop_event' = FALSE
  /\ hist' = [hh EXCEPT ![u].ended = TRUE]
  /\ mainPc' = IF u = Greeting THEN "idle_wait" ELSE mp
  /\ vad' = CallerFinallyVad(u, vad)

\* finally: set the producer stop flag, await the producer (1 s)
Finally(u, pp, st, ev, oo, ot, hh, mp) ==
  LET pp1 == [pp EXCEPT ![u].stop_flag = TRUE, ![u].cancelled = FALSE]
  IN IF pp[u].prod = "done"
     THEN CleanupRest(u, pp1, st, oo, ot, hh, mp)
     ELSE /\ pipe' = [pp1 EXCEPT ![u].pc = "cleanup_wait"]
          /\ state' = st
          /\ stop_event' = ev
          /\ obs' = oo /\ orch_tts' = ot /\ hist' = hh /\ mainPc' = mp
          /\ vad' = vad

\* The play loop was left: emit tts_stopped unless the latch is set, then finally
ExitLoop(u, pp, st, ev, oo, ot, hh, mp) ==
  LET reason == IF pp[u].completed_normally THEN "completed"
                ELSE IF ev THEN "interrupted"
                ELSE "unknown"
      emit == ~st.tts_stop_emitted
      evt == [type |-> "tts_stopped", reason |-> reason,
              barge_in |-> (reason = "interrupted" /\ st.last_vad_ts_ms > 0)]
      oo1 == IF emit THEN [oo EXCEPT ![u] = Append(@, evt)] ELSE oo
      ot1 == IF emit THEN [ot EXCEPT ![u] = Append(@, [type |-> "stopped", reason |-> reason])]
             ELSE ot
      st1 == IF emit THEN [st EXCEPT !.tts_stop_emitted = TRUE] ELSE st
      hh1 == IF emit THEN [hh EXCEPT ![u].stop_at_emit = ev] ELSE hh
  IN Finally(u, pp, st1, ev, oo1, ot1, hh1, mp)

\* Loop head `while not stop_event.is_set()`, then `await queue.get()`
LoopHead(u, pp, st, ev, oo, ot, hh, mp) ==
  IF ev
  THEN ExitLoop(u, pp, st, ev, oo, ot, hh, mp)
  ELSE /\ pipe' = [pp EXCEPT ![u].pc = "get"]
       /\ state' = st /\ stop_event' = ev /\ obs' = oo /\ orch_tts' = ot
       /\ hist' = hh /\ mainPc' = mp /\ vad' = vad

\* `Send frame`: publish; on the first success arm and emit tts_first_audio;
\* on a transport error set the stop signal and leave the loop
SendFrame(u, ok, pp, st, ev, oo, ot, hh, mp) ==
  IF ok
  THEN LET first == pp[u].sent_frames = 0
           fa == ~pp[u].first_audio_emitted
           pp1 == [pp EXCEPT ![u].sent_frames = @ + 1,
                             ![u].first_audio_emitted = TRUE]
           st1 == IF first
                  THEN [st EXCEPT !.speaking_armed = TRUE, !.speaking_armed_ts_ms = WallMs]
                  ELSE st
           oo1 == IF fa THEN [oo EXCEPT ![u] = Append(@, [type |-> "tts_first_audio"])]
                  ELSE oo
           ot1 == IF fa THEN [ot EXCEPT ![u] = Append(@, [type |-> "first_audio"])] ELSE ot
           hh1 == IF first THEN [hh EXCEPT ![u].first_pub_ms = WallMs] ELSE hh
       IN LoopHead(u, pp1, st1, ev, oo1, ot1, hh1, mp)
  ELSE ExitLoop(u, WakePipes(pp), st, TRUE, oo, ot, MarkStopRaised(hh, pp), WakeMain(mp))

\* The prebuffer loop ends: target reached, stop signal, timeout or producer done
PrebufferExit(u) ==
  /\ pipe[u].pc = "prebuffer" /\ ~pipe[u].cancelled
  /\ LoopHead(u, pipe, state, stop_event, obs, orch_tts, hist, mainPc)
  /\ UNCHANGED <<now, posted, audioPc, loc, gate, nStart, nVad, nCmd, require_interim, ctl, net, wire, idleUnits>>

\* queue.get() returns a frame and the frame is due (sleep_time <= 5 ms): send it
GetFrameSend(u, ok) ==
  /\ pipe[u].pc = "get" /\ ~pipe[u].cancelled
  /\ pipe[u].sent_frames < MaxFrames
  /\ SendFrame(u, ok, pipe, state, stop_event, obs, orch_tts,
               hist, mainPc)
  /\ UNCHANGED <<now, posted, audioPc, loc, gate, nStart, nVad, nCmd, require_interim, ctl, net, wire, idleUnits>>

\* queue.get() returns a frame ahead of schedule: wait on the stop event with a timeout.
\* The first frame is never ahead: next_frame_time was taken before the get.
GetFrameWait(u) ==
  /\ pipe[u].pc = "get" /\ ~pipe[u].cancelled
  /\ pipe[u].sent_frames > 0 /\ pipe[u].sent_frames < MaxFrames
  /\ IF stop_event
     THEN ExitLoop(u, pipe, state, stop_event, obs, orch_tts, hist, mainPc)
     ELSE /\ pipe' = [pipe EXCEPT ![u].pc = "pace"]
          /\ UNCHANGED <<state, stop_event, obs, orch_tts, hist, mainPc, vad>>
  /\ UNCHANGED <<now, posted, audioPc, loc, gate, nStart, nVad, nCmd, require_interim, ctl, net, wire, idleUnits>>

\* queue.get() returns the sentinel
GetSentinel(u) ==
  /\ pipe[u].pc = "get" /\ ~pipe[u].cancelled
  /\ pipe[u].prod = "done"
  /\ ExitLoop(u, [pipe EXCEPT ![u].completed_normally = TRUE],
              state, stop_event, obs, orch_tts, [hist EXCEPT ![u].sentinel = TRUE], mainPc)
  /\ UNCHANGED <<now, posted, audioPc, loc, gate, nStart, nVad, nCmd, require_interim, ctl, net, wire, idleUnits>>

\* queue.get() times out after 500 ms: the underrun branch, then break
GetTimeout(u) ==
  /\ pipe[u].pc = "get" /\ ~pipe[u].cancelled
  /\ pipe[u].prod = "running"
  /\ LET emit == ~state.tts_stop_emitted
         evt == [type |-> "tts_stopped", reason |-> "buffer_underrun",
                 barge_in |-> (state.last_vad_ts_ms > 0)]
         pp1 == [pipe EXCEPT ![u].underruns = 1]
         oo1 == IF emit THEN [obs EXCEPT ![u] = Append(@, evt)] ELSE obs
         ot1 == IF emit THEN [orch_tts EXCEPT ![u] =
                                Append(@, [type |-> "stopped", reason |-> "buffer_underrun"])]
                ELSE orch_tts
         st1 == [state EXCEPT !.tts_stop_emitted = TRUE]
         hh1 == IF emit THEN [hist EXCEPT ![u].stop_at_emit = stop_event] ELSE hist
     IN Finally(u, pp1, st1, stop_event, oo1, ot1, hh1, mainPc)
  /\ UNCHANGED <<now, posted, audioPc, loc, gate, nStart, nVad, nCmd, require_interim, ctl, net, wire, idleUnits>>

\* The pacing wait times out: send the frame
PaceElapsed(u, ok) ==
  /\ pipe[u].pc = "pace" /\ ~pipe[u].cancelled
  /\ SendFrame(u, ok, pipe, state, stop_event, obs, orch_tts, hist, mainPc)
  /\ UNCHANGED <<now, posted, audioPc, loc, gate, nStart, nVad, nCmd, require_interim, ctl, net, wire, idleUnits>>

\* The pacing wait returns because stop_event.set() woke it: break
PaceWoken(u) ==
  /\ pipe[u].pc = "pace_woken" /\ ~pipe[u].cancelled
  /\ ExitLoop(u, pipe, state, stop_event, obs, orch_tts, hist, mainPc)
  /\ UNCHANGED <<now, posted, audioPc, loc, gate, nStart, nVad, nCmd, require_interim, ctl, net, wire, idleUnits>>

\* wait_for(prod_fut, 1.0) returns or times out: the rest of the finally
CleanupResume(u) ==
  /\ pipe[u].pc = "cleanup_wait" /\ ~pipe[u].cancelled
  /\ CleanupRest(u, pipe, state, obs, orch_tts, hist, mainPc)
  /\ UNCHANGED <<now, posted, audioPc, loc, gate, nStart, nVad, nCmd, require_interim, ctl, net, wire, idleUnits>>

\* ------------------------------------------------ main() and the tasks
Tick ==
  /\ now < MaxTicks
  /\ now' = now + 1
  /\ UNCHANGED <<state, stop_event, posted, mainPc, pipe, audioPc, loc, gate, obs, orch_tts,
                 hist, nStart, nVad, nCmd, require_interim, ctl, net, wire, unitVars>>

\* main(): the greeting, up to the first suspension inside tts_streaming_play;
\* the VAD engine's min_start_frames is raised for the time TTS is active
GreetingStart ==
  /\ mainPc = "start"
  /\ mainPc' = "greeting"
  /\ state' = [state EXCEPT !.speaking = TRUE, !.speaking_armed = FALSE,
                            !.rms_samples = <<>>, !.rms_last_sample_ts = 0,
                            !.active_utterance_id = Greeting]
  /\ obs' = [obs EXCEPT ![Greeting] = Append(@, [type |-> "tts_started"])]
  /\ orch_tts' = [orch_tts EXCEPT ![Greeting] = Append(@, [type |-> "started"])]
  /\ pipe' = [pipe EXCEPT ![Greeting].pc = "prebuffer", ![Greeting].prod = "running"]
  /\ hist' = [hist EXCEPT ![Greeting].started = TRUE]
  /\ vad' = WithMinStartFrames(vad, Max(1, MinStartFramesWhileTts))
  /\ UNCHANGED <<now, stop_event, posted, audioPc, loc, gate, nStart, nVad, nCmd,
                 require_interim, ctl, net, wire, idleUnits>>

\* _on_start_tts: accumulate the text, cancel the pending flush task, start a new one.
\* The receive task first runs when main() first suspends, inside the greeting.
\* (the k-th start_tts creates task k, which plays utterance k if it gets to flush)
RecvStartTts ==
  /\ mainPc # "start"
  /\ nStart < MaxStartTts
  /\ nStart' = nStart + 1
  /\ state' = [state EXCEPT !.tts_accum_buf = Append(@, nStart + 1)]
  /\ pipe' = [u \in Utt |->
               IF u = nStart + 1 THEN [pipe[u] EXCEPT !.pc = "debounce"]
               ELSE IF u = nStart /\ u # Greeting /\ pipe[u].pc # "done"
                    THEN [pipe[u] EXCEPT !.cancelled = TRUE]
               ELSE pipe[u]]
  /\ UNCHANGED <<now, stop_event, posted, mainPc, audioPc, loc, gate, obs, orch_tts, hist,
                 nVad, nCmd, require_interim, ctl, net, wire, unitVars>>

\* _delayed_flush wakes from the debounce sleep and runs _flush_tts_accum up to
\* the first suspension inside tts_streaming_play
DebounceExpire(u) ==
  /\ pipe[u].pc = "debounce" /\ ~pipe[u].cancelled
  /\ IF state.tts_accum_buf = <<>>
     THEN /\ pipe' = [pipe EXCEPT ![u].pc = "done"]
          /\ UNCHANGED <<state, orch_tts, hist>>
     ELSE /\ state' = [state EXCEPT !.tts_accum_buf = <<>>,
                                    !.active_utterance_id = u,
                                    !.tts_stop_emitted = FALSE,
                                    !.speaking = TRUE]
          /\ orch_tts' = [orch_tts EXCEPT ![u] = Append(@, [type |-> "started"])]
          /\ pipe' = [pipe EXCEPT ![u].pc = "prebuffer", ![u].prod = "running"]
          /\ hist' = [hist EXCEPT ![u].started = TRUE, ![u].text = state.tts_accum_buf]
  /\ UNCHANGED <<now, stop_event, posted, mainPc, audioPc, loc, gate, obs, nStart, nVad,
                 nCmd, require_interim, ctl, net, wire, unitVars>>

\* CancelledError is raised at the await where the flush task is suspended
DeliverCancel(u) ==
  /\ pipe[u].cancelled
  /\ pipe[u].pc \in {"debounce", "prebuffer", "get", "pace", "pace_woken", "cleanup_wait"}
  /\ CASE pipe[u].pc = "debounce" ->
            \* asyncio.sleep(debounce): _delayed_flush returns
            /\ pipe' = [pipe EXCEPT ![u].pc = "done", ![u].cancelled = FALSE]
            /\ UNCHANGED <<state, stop_event, obs, orch_tts, hist, mainPc, vad>>
       [] pipe[u].pc \in {"prebuffer", "cleanup_wait"} ->
            \* prebuffer sleep (before the try) or the producer wait inside the
            \* finally: only the finally of _flush_tts_accum still runs
            /\ pipe' = [pipe EXCEPT ![u].pc = "done", ![u].cancelled = FALSE]
            /\ state' = CallerFinally(u, state)
            /\ hist' = [hist EXCEPT ![u].ended = TRUE]
            /\ vad' = CallerFinallyVad(u, vad)
            /\ UNCHANGED <<stop_event, obs, orch_tts, mainPc>>
       [] OTHER ->
            \* inside the try: the emission is skipped, the finally runs
            Finally(u, pipe, state, stop_event, obs, orch_tts, hist, mainPc)
  /\ UNCHANGED <<now, posted, audioPc, loc, gate, nStart, nVad, nCmd, require_interim, ctl, net, wire, idleUnits>>

\* main(): the idle loop's wait on stop_event returned: clear it
IdleStopWake ==
  /\ mainPc = "idle_woken"
  /\ mainPc' = "idle_wait"
  /\ stop_event' = FALSE
  /\ UNCHANGED <<now, state, posted, pipe, audioPc, loc, gate, obs, orch_tts, hist,
                 nStart, nVad, nCmd, require_interim, ctl, net, wire, unitVars>>

\* --------------------------------------------------- stop and commands
\* stop_event.set() on the loop thread
SetStop ==
  /\ stop_event' = TRUE
  /\ pipe' = WakePipes(pipe)
  /\ mainPc' = WakeMain(mainPc)
  /\ hist' = MarkStopRaised(hist, pipe)

\* _recv_loop: stop_tts from the orchestrator (the receive task first runs when
\* main() first suspends, inside the greeting)
RecvStopTts ==
  /\ mainPc # "start"
  /\ nCmd < MaxCmds
  /\ nCmd' = nCmd + 1
  /\ SetStop
  /\ UNCHANGED <<now, state, posted, audioPc, loc, gate, obs, orch_tts, nStart, nVad,
                 require_interim, ctl, net, wire, unitVars>>

\* run_ws: stop_tts from the observer channel
ObserverStopTts ==
  /\ nCmd < MaxCmds
  /\ nCmd' = nCmd + 1
  /\ SetStop
  /\ UNCHANGED <<now, state, posted, audioPc, loc, gate, obs, orch_tts, nStart, nVad,
                 require_interim, ctl, net, wire, unitVars>>

\* The callback posted by the audio thread runs on the loop
RunPostedStop ==
  /\ posted > 0
  /\ posted' = posted - 1
  /\ SetStop
  /\ UNCHANGED <<now, state, audioPc, loc, gate, obs, orch_tts, nStart, nVad, nCmd,
                 require_interim, ctl, net, wire, unitVars>>

\* _recv_loop: arm_barge_in(guard_ms, min_rms); zero leaves a knob unchanged
RecvArmBargeIn(g, m) ==
  /\ mainPc # "start"
  /\ nCmd < MaxCmds
  /\ nCmd' = nCmd + 1
  /\ state' = [state EXCEPT !.local_stop_guard_ms = IF g > 0 THEN g ELSE @,
                            !.local_stop_min_rms = IF m > 0 THEN m ELSE @]
  /\ UNCHANGED <<now, stop_event, posted, mainPc, pipe, audioPc, loc, gate, obs, orch_tts,
                 hist, nStart, nVad, require_interim, ctl, net, wire, unitVars>>

\* run_ws: policy message from the observer channel
ObserverPolicy(b) ==
  /\ nCmd < MaxCmds
  /\ nCmd' = nCmd + 1
  /\ state' = [state EXCEPT !.local_stop_enabled = b]
  /\ UNCHANGED <<now, stop_event, posted, mainPc, pipe, audioPc, loc, gate, obs, orch_tts,
                 hist, nStart, nVad, require_interim, ctl, net, wire, unitVars>>

\* STTSidecarClient._recv_loop: an interim transcript of n characters
SttInterim(n) ==
  /\ mainPc # "start"
  /\ nCmd < MaxCmds
  /\ nCmd' = nCmd + 1
  /\ state' = [state EXCEPT !.stt_last_interim_ts_ms = now * TickMs, !.stt_last_interim_len = n]
  /\ UNCHANGED <<now, stop_event, posted, mainPc, pipe, audioPc, loc, gate, obs, orch_tts,
                 hist, nStart, nVad, require_interim, ctl, net, wire, unitVars>>

\* ----------------------------------------- audio thread (VADManager.on_frame)
\* RMS profiling while speaking: at most one sample per second
WouldSample(st, now_ms) == st.speaking /\ now_ms - st.rms_last_sample_ts >= RmsSampleGapMs

SampleRms(st, rms, now_ms) ==
  IF WouldSample(st, now_ms)
  THEN [st EXCEPT !.rms_samples = Append(@, rms), !.rms_last_sample_ts = now_ms]
  ELSE st

\* on_frame for a frame on which the VAD engine reports no event
FrameSample(rms) ==
  /\ audioPc = "idle"
  /\ WouldSample(state, WallMs)
  /\ Len(state.rms_samples) < MaxRmsSamples
  /\ state' = SampleRms(state, rms, WallMs)
  /\ UNCHANGED <<now, stop_event, posted, mainPc, pipe, audioPc, loc, gate, obs, orch_tts,
                 hist, nStart, nVad, nCmd, require_interim, ctl, net, wire, unitVars>>

\* downsample_48k_to_16k on lengths: resample_poly(x, up=1, down=3) gives
\* ceil(len(x) / 3) samples of 2 bytes
Downsample16k(nbytes) == 2 * (((nbytes \div 2) + 2) \div 3)

\* RingBuffer.flush_all(): the frames held are returned and the deque is cleared
FlushAll(r) == [r EXCEPT !.flushed = r.q, !.q = <<>>]

\* on_frame, VAD 'start', lines 496-540: what is done about an STT utterance;
\* rms_ok = rms >= stt_min_rms and (not in_cooldown or rms >= stt_min_rms * 2)
SttBranch(mg, rms, now_ms) ==
  IF mg.stt_continuous \/ ~mg.stt_client \/ mg.in_utterance THEN "skip"
  ELSE IF rms >= SttMinRms /\ (~(now_ms < mg.stt_suppression_until) \/ rms >= SttMinRms * 2)
  THEN "begin"
  ELSE "suppress"

\* the manager and the batcher after that: an utterance begun with the ring's
\* pre-speech added to the batcher, or the batcher emptied and the cooldown armed
SttOnStart(mg, r, rms, now_ms) ==
  LET branch == SttBranch(mg, rms, now_ms)
      flushed == Len(r.q) * FrameBytes
      lst == [ev |-> "start", rms |-> rms, in_cooldown |-> now_ms < mg.stt_suppression_until,
              was_in_utterance |-> mg.in_utterance, branch |-> branch,
              flushed |-> IF branch = "begin" THEN flushed ELSE 0,
              start_sent |-> branch = "begin"]
  IN CASE branch = "begin" ->
            [mg EXCEPT !.in_utterance = TRUE, !.buf = @ + Downsample16k(flushed),
                       !.batched = @ \o r.q, !.last = lst]
       [] branch = "suppress" ->
            [mg EXCEPT !.buf = 0, !.stt_suppression_until = now_ms + SttCooldownMs,
                       !.last = lst]
       [] OTHER -> [mg EXCEPT !.last = lst]

\* self.vad.speaking = False; self.vad.consec_speech = 0; self.vad.non_speech = 0
VadReset(v) == [v EXCEPT !.speaking = FALSE, !.consec_speech = 0, !.non_speech = 0]

\* on_frame, VAD 'start': sample, compute the gate inputs, record last_vad_ts_ms,
\* begin or suppress the STT utterance
VadStart(rms) ==
  /\ audioPc = "idle"
  /\ nVad < MaxVadStarts
  /\ WouldSample(state, WallMs) => Len(state.rms_samples) < MaxRmsSamples
  /\ nVad' = nVad + 1
  /\ audioPc' = "gate"
  /\ LET st1 == SampleRms(state, rms, WallMs)
         branch == SttBranch(mgr, rms, WallMs)
     IN /\ loc' = [ now_ms |-> WallMs, rms |-> rms,
                    guard_ms |-> st1.local_stop_guard_ms,
                    guard_ok |-> GuardOk(WallMs, st1.speaking_armed_ts_ms,
                                         st1.local_stop_guard_ms),
                    min_rms |-> st1.local_stop_min_rms,
                    dyn2 |-> DynThresh2(st1.local_stop_min_rms, st1.speaking, st1.rms_samples),
                    tts_active |-> st1.speaking,
                    interim_ts |-> st1.stt_last_interim_ts_ms,
                    interim_len |-> st1.stt_last_interim_len,
                    interim_ok |-> InterimOk(require_interim, WallMs, st1.speaking,
                                             st1.stt_last_interim_ts_ms,
                                             st1.stt_last_interim_len) ]
        /\ state' = [st1 EXCEPT !.last_vad_ts_ms = WallMs,
                                !.active_utterance_id = IF branch = "begin" THEN SttUtt ELSE @]
        /\ mgr' = SttOnStart(mgr, ring, rms, WallMs)
        /\ ring' = IF branch = "skip" THEN ring ELSE FlushAll(ring)
        /\ vad' = IF branch = "suppress" THEN VadReset(vad) ELSE vad
  /\ hist' = [u \in Utt |-> IF u \in InPlay(pipe) THEN [hist[u] EXCEPT !.vad_during = TRUE]
                            ELSE hist[u]]
  /\ UNCHANGED <<now, stop_event, posted, mainPc, pipe, gate, obs, orch_tts, nStart, nCmd,
                 require_interim, ctl, net, wire, proc, producer, playback, prebuf>>

\* on_frame, VAD 'start': the gated stop
Gate ==
  /\ audioPc = "gate"
  /\ audioPc' = "idle"
  /\ LET outcome == GateOutcome(state.local_stop_enabled, state.speaking_armed, loc.guard_ok,
                                loc.rms, loc.dyn2, loc.interim_ok)
     IN /\ gate' = [ outcome |-> outcome, at_ms |-> loc.now_ms, rms |-> loc.rms,
                     guard_ms |-> loc.guard_ms, guard_ok |-> loc.guard_ok,
                     min_rms |-> loc.min_rms, dyn2 |-> loc.dyn2,
                     tts_active |-> loc.tts_active, interim_ts |-> loc.interim_ts,
                     interim_len |-> loc.interim_len, interim_ok |-> loc.interim_ok,
                     enabled |-> state.local_stop_enabled,
                     armed |-> state.speaking_armed,
                     playing |-> InPlay(pipe),
                     first_pub |-> [u \in Utt |-> hist[u].first_pub_ms],
                     counter |-> GateCounter(outcome) ]
        /\ posted' = IF outcome = "triggered" THEN posted + 1 ELSE posted
  /\ UNCHANGED <<now, state, stop_event, mainPc, pipe, loc, obs, orch_tts, hist, nStart,
                 nVad, nCmd, require_interim, ctl, net, wire, unitVars>>

\* ------------------------------------- GatewayControlClient (control stream)
MaxStreams == 3       \* control streams opened in one run
MaxKills == 2         \* connection losses in one run
MaxQueue == 2         \* events waiting in the write queue
MaxFeatures == 3      \* send_feature calls that change the stored value
FeatureStep == 10     \* 1.0 RMS: the change that makes a feature worth sending
FeatureValues == {50, 55, 70}   \* RMS values in tenths
MaxSupTicks == 7      \* polls of the reconnect supervisor that fail or find a call
MaxTtsEvents == 1     \* send_tts_event calls in one run
BackoffStartMs == 200 \* backoff = 0.2
BackoffCapMs == 5000  \* min(backoff * 2.0, 5.0)

\* The object after __init__: no call, no tasks, nothing coalesced (0 is None)
NoCtl ==
  [ call |-> 0,                 \* self._call: 0 is None, else the stream
    write_queue |-> <<>>,
    room_url_last |-> FALSE,    \* self._room_url_last is set
    feature_latest |-> 0,
    feature_last_sent |-> 0,
    writer |-> "none",          \* _write_loop task: none, running, exited
    readers |-> {},             \* streams a _recv_loop task is reading
    supervisor |-> FALSE,       \* _reconnect_supervisor task exists
    kills |-> 0,                \* connection losses so far
    feats |-> 0,                \* send_feature calls so far
    calls |-> <<>>,             \* the values send_feature was called with, in order
    ticks |-> 0,                \* periods of _feature_loop that enqueued
    feat_log |-> <<>>,          \* the features enqueued: period, value, last value sent
                                \* before, send_feature calls made by then
    tts_events |-> 0,           \* send_tts_event calls made
    backoff |-> BackoffStartMs, \* the supervisor's local `backoff`, in ms
    sup_ticks |-> 0,            \* polls that failed to reconnect or found a call
    sup_log |-> <<>> ]          \* per poll that did something: what, the backoff slept,
                                \* the backoff afterwards

InitCtl ==
  /\ ctl = NoCtl
  /\ net = <<>>
  /\ wire = <<>>

\* ------------------------------------------ components on their own
\* the process, for main()'s way from its first line to the exit code
EnvNames == <<"DAILY_ROOM_URL", "DAILY_TOKEN", "ELEVENLABS_API_KEY", "ELEVENLABS_VOICE_ID">>

NoProc ==
  [ pc |-> "start",        \* start, join, wait_participant, greeting, idle, exited
    env |-> [i \in 1..Len(EnvNames) |-> TRUE],  \* the mandatory setting is present
    ws_url |-> FALSE,      \* WS_URL is set
    read |-> 0,            \* required_env calls that returned
    ws_task |-> "none",    \* the run_ws task: none, running, failed
    cause |-> "none",      \* why main() was left
    exit_code |-> -1,      \* the process's exit status, -1 while it runs
    idle_exit_s |-> 2,     \* BOT_IDLE_EXIT_SECONDS
    stay_s |-> 0,          \* BOT_STAY_CONNECTED_SECONDS
    now_s |-> 0,           \* time.time() - start_ts, in whole seconds
    last_activity_s |-> 0, \* state['last_activity_ms'], on the same scale
    quiet_s |-> 0,         \* when TTS, a start_tts or a stop signal last counted as activity
    speaking |-> FALSE,    \* state['speaking']
    active_utterance_id |-> "",  \* state['active_utterance_id']: "", a TTS id, an STT id
    stop_event |-> FALSE ]

\* one run of the TTS producer thread with its queue and the consumer's sends
ChunkSizes == {0, 1, 1919, 1921}   \* lengths of the chunks resp.iter_content yields
NoProducer ==
  [ pc |-> "request",      \* request, stream, done
    chunk_count |-> 0,
    received |-> 0,        \* bytes read from the response: byte i of the stream is i
    raw_buf |-> <<>>,
    out_buf |-> <<>>,
    queue |-> <<>>,        \* every item put on the queue, in order
    taken |-> 0,           \* items the consumer has dequeued
    sent |-> <<>>,         \* lengths of the frames the consumer handed to the transport
    stop_flag |-> FALSE,
    exit |-> "none" ]      \* how the producer left: finished, stop_flag, exception, put_failed

\* one run of a pacing loop: playback_task over the PCM bytes of a fetched
\* utterance, or the play phase of tts_streaming_play over the queued frames
PcmLens == {0, 1920, 1922, 3840, 4800}   \* len(pcm16_bytes): any even number
FrameDurationMs == 20      \* frame_duration = 0.02
PaceSlackMs == 5           \* if sleep_time > 0.005
LatencyMs == {0, 16, 30}   \* how long one queue.get() or one transport send took
NoPlayback ==
  [ pc |-> "none",         \* none, loop, done
    path |-> "fetched",    \* fetched: playback_task, streaming: tts_streaming_play
    pcm_len |-> 0,
    pos |-> 0,
    stop |-> FALSE,        \* stop_event.is_set()
    now_ms |-> 0,          \* time.monotonic()
    anchor |-> 0,          \* time.monotonic() when the loop was entered
    next_frame_time |-> 0,
    sent |-> <<>>,         \* lengths of the chunks handed to the transport
    pub |-> <<>> ]         \* time.monotonic() at which each of them was handed over

\* RingBuffer.__init__(capacity_ms, hard_cap_ms, frame_ms)
RingBufferInit(capacity_ms, hard_cap_ms, frame_ms) ==
  LET capacity_frames == Max(1, capacity_ms \div frame_ms)
  IN [ capacity_ms |-> capacity_ms, hard_cap_ms |-> hard_cap_ms, frame_ms |-> frame_ms,
       capacity_frames |-> capacity_frames,
       hard_cap_frames |-> Max(capacity_frames, hard_cap_ms \div frame_ms),
       q |-> <<>>,            \* self._q: the seq numbers of the frames held
       seq |-> 0,             \* self._seq
       before |-> <<>>,       \* self._q as the last push found it
       flushed |-> <<>> ]     \* what the last flush_all returned

CapacityMsValues == {20, 40, 60}     \* RING_BUFFER_MS
HardCapMsValues == {20, 40, 60}      \* RING_BUFFER_HARD_CAP_MS
FrameMsValues == {10, 20}
NoRing == RingBufferInit(300, 500, 20)

\* VADState.__init__(aggressiveness, frame_ms, hangover_ms, max_utterance_ms)
VADStateInit(frame_ms, hangover_ms, max_utterance_ms) ==
  [ frame_ms |-> frame_ms,
    hangover_frames |-> hangover_ms \div frame_ms,
    max_utterance_ms |-> max_utterance_ms,
    speaking |-> FALSE,
    consec_speech |-> 0,
    non_speech |-> 0,
    started_at_ms |-> 0,
    min_start_frames |-> DefaultMinStartFrames,
    min_burst_frames |-> MinBurstFrames,
    frame_count |-> 0,     \* self._frame_count
    clock |-> 0,           \* int(time.time() * 1000) at the last frame, from the first one
    heard |-> <<>>,        \* voicing of the frames processed since the state was entered
    start_ms |-> 0,        \* clock of the last start event
    min_changed |-> FALSE, \* min_start_frames was written since IDLE was entered
    last |-> [ev |-> "none", at_ms |-> 0, was_speaking |-> FALSE, start_ms |-> 0,
              heard |-> <<>>, min_start_frames |-> 0, min_changed |-> FALSE] ]

HangoverMsValues == {40, 60}         \* WORKER_VAD_HANGOVER_MS
MaxUtteranceMsValues == {100, 200}   \* WORKER_VAD_MAX_UTTERANCE_MS
MinStartFramesValues == {1, 2, 3}    \* 2, or max(1, WORKER_VAD_MIN_START_FRAMES_WHILE_TTS)
VadClockSteps == {20, 60}            \* wall-clock time between two frames, in ms
Voicings == {"voiced", "unvoiced", "error"}   \* what self.vad.is_speech does
NoVad == VADStateInit(VadFrameMs, 400, 30000)

AudioRmsValues == {30, 60, 120}      \* below stt_min_rms, above it, above twice it
AudioClockSteps == {20, 220}         \* wall-clock time between two frames, in ms

\* the prebuffer depth across the runs of tts_streaming_play (0 is: not set)
PrebufferEnvValues == {0, 12, 30}    \* TTS_PREBUFFER_FRAMES
NoPrebuf ==
  [ env |-> 0,
    next |-> 0,            \* state['tts_prebuffer_frames_next']
    plays |-> <<>> ]       \* per run: pc (prebuffer, play, done), prebuffer_target,
                           \* underruns, and whether the run before it was over

\* the VADManager after attach_candidate_vad, with the FrameBatcher of main()
\* (STT_ENABLED and STT_CONTINUOUS at their defaults, the sidecar reachable)
NoMgr ==
  [ stt_client |-> TRUE,          \* manager.stt_client is not None
    stt_continuous |-> FALSE,     \* self._stt_continuous
    in_utterance |-> FALSE,       \* self._in_utterance
    stt_suppression_until |-> 0,  \* self._stt_suppression_until
    target |-> BatchMs * BytesPerMs,   \* FrameBatcher._target
    buf |-> 0,                    \* len(FrameBatcher._buf)
    frames |-> 0,                 \* frames handed to handle_frame
    batched |-> <<>>,             \* seq numbers of the frames added to the batcher, in order
    last |-> [ev |-> "none", rms |-> 0, in_cooldown |-> FALSE, was_in_utterance |-> FALSE,
              branch |-> "none", flushed |-> 0, start_sent |-> FALSE] ]

\* The components at rest
InitUnits ==
  /\ mgr = NoMgr
  /\ prebuf = NoPrebuf
  /\ vad = NoVad
  /\ ring = NoRing
  /\ proc = NoProc
  /\ producer = NoProducer
  /\ playback = NoPlayback

\* The process after construction, with LOCAL_STOP_REQUIRE_INTERIM at its default
Init == InitSess /\ require_interim = TRUE /\ InitCtl /\ InitUnits

\* main(): connect() then send_session_open(room_url)
CtlConnect ==
  /\ ctl.writer = "none"
  /\ net' = Append(net, "up")
  /\ wire' = Append(wire, <<>>)
  /\ ctl' = [ctl EXCEPT !.call = Len(net) + 1,
                        !.readers = {Len(net) + 1},
                        !.writer = "running",
                        !.supervisor = TRUE,
                        !.room_url_last = TRUE,
                        !.write_queue = <<"session_open">>]
  /\ UNCHANGED <<sessVars, unitVars>>

\* _write_loop: one queued event; dropped when there is no call, written when the
\* stream is up; a failed write drops the call and ends the loop
WriteStep ==
  /\ ctl.writer = "running"
  /\ ctl.write_queue # <<>>
  /\ LET msg == Head(ctl.write_queue)
         rest == Tail(ctl.write_queue)
     IN IF ctl.call = 0
        THEN /\ ctl' = [ctl EXCEPT !.write_queue = rest]
             /\ wire' = wire
        ELSE IF net[ctl.call] = "up"
        THEN /\ ctl' = [ctl EXCEPT !.write_queue = rest]
             /\ wire' = [wire EXCEPT ![ctl.call] = Append(@, msg)]
        ELSE /\ ctl' = [ctl EXCEPT !.write_queue = rest, !.call = 0, !.writer = "exited"]
             /\ wire' = wire
  /\ UNCHANGED <<sessVars, unitVars, net>>

\* _recv_loop: read() returns end-of-stream or raises: drop the call, end the task
RecvLost(s) ==
  /\ s \in ctl.readers
  /\ net[s] # "up"
  /\ ctl' = [ctl EXCEPT !.call = 0, !.readers = @ \ {s}]
  /\ UNCHANGED <<sessVars, unitVars, net, wire>>

\* send_feature(rms): store the latest value
SendFeature(v) ==
  /\ ctl.writer # "none"
  /\ ctl.feature_latest # v
  /\ ctl.feats < MaxFeatures
  /\ ctl' = [ctl EXCEPT !.feature_latest = v, !.feats = @ + 1, !.calls = Append(@, v)]
  /\ UNCHANGED <<sessVars, unitVars, net, wire>>

\* what a mutant of FeatureChanged tests: the value differs at all
FeatureDiffers(v, last) == v # last

\* abs(v - last_sent) >= 1.0, or nothing sent yet
FeatureChanged(v, last) ==
  last = 0 \/ (IF v >= last THEN v - last ELSE last - v) >= FeatureStep

\* _feature_loop: one period; enqueue the latest value if it changed
FeatureTick ==
  /\ ctl.writer # "none"
  /\ ctl.call # 0
  /\ ctl.feature_latest # 0
  /\ FeatureChanged(ctl.feature_latest, ctl.feature_last_sent)
  /\ Len(ctl.write_queue) < MaxQueue
  /\ ctl' = [ctl EXCEPT !.write_queue = Append(@, "feature"),
                        !.feature_last_sent = ctl.feature_latest,
                        !.ticks = @ + 1,
                        !.feat_log = Append(@, [tick |-> ctl.ticks + 1,
                                                rms |-> ctl.feature_latest,
                                                last |-> ctl.feature_last_sent,
                                                calls |-> ctl.feats])]
  /\ UNCHANGED <<sessVars, unitVars, net, wire>>

\* send_tts_event: the event is enqueued whether or not there is a call ("tts_nocall"
\* marks one enqueued while there is none)
send_tts_event ==
  /\ ctl.writer # "none"
  /\ Len(ctl.write_queue) < MaxQueue
  /\ ctl.tts_events < MaxTtsEvents
  /\ ctl' = [ctl EXCEPT !.write_queue =
                          Append(@, IF ctl.call = 0 THEN "tts_nocall" ELSE "tts"),
                        !.tts_events = @ + 1]
  /\ UNCHANGED <<sessVars, unitVars, net, wire>>

\* what a mutant of Replay enqueues: nothing
NoReplay(write_queue, room_url_last) == write_queue

\* `if self._room_url_last:` enqueue a session_open for it
Replay(write_queue, room_url_last) ==
  IF room_url_last THEN Append(write_queue, "session_open") ELSE write_queue

\* what a mutant of BackoffNext gives: the double, whatever it is
BackoffDoubled(backoff) == backoff * 2

\* backoff = min(backoff * 2.0, 5.0)
BackoffNext(backoff) == Min(backoff * 2, BackoffCapMs)

\* _reconnect_supervisor: one poll that finds no call: open a stream, start a
\* receive task on it, replay session_open, reset the backoff
Supervise ==
  /\ ctl.supervisor
  /\ ctl.call = 0
  /\ Len(net) < MaxStreams
  /\ Len(ctl.write_queue) < MaxQueue
  /\ net' = Append(net, "up")
  /\ wire' = Append(wire, <<>>)
  /\ ctl' = [ctl EXCEPT !.call = Len(net) + 1,
                        !.readers = @ \cup {Len(net) + 1},
                        !.write_queue = Replay(@, ctl.room_url_last),
                        !.backoff = BackoffStartMs,
                        !.sup_log = Append(@, [what |-> "reconnected", slept |-> 0,
                                               before |-> ctl.backoff,
                                               backoff |-> BackoffStartMs])]
  /\ UNCHANGED <<sessVars, unitVars>>

\* _reconnect_supervisor: one poll that finds no call and fails to open a stream
\* (the except branch): sleep for the backoff, then double it up to the cap
SuperviseFail ==
  /\ ctl.supervisor
  /\ ctl.call = 0
  /\ ctl.sup_ticks < MaxSupTicks
  /\ ctl' = [ctl EXCEPT !.backoff = BackoffNext(ctl.backoff),
                        !.sup_ticks = @ + 1,
                        !.sup_log = Append(@, [what |-> "failed", slept |-> ctl.backoff,
                                               before |-> ctl.backoff,
                                               backoff |-> BackoffNext(ctl.backoff)])]
  /\ UNCHANGED <<sessVars, unitVars, net, wire>>

\* _reconnect_supervisor: one poll that finds a call: backoff = 0.2
SuperviseHealthy ==
  /\ ctl.supervisor
  /\ ctl.call # 0
  /\ ctl.sup_ticks < MaxSupTicks
  /\ ctl' = [ctl EXCEPT !.backoff = BackoffStartMs,
                        !.sup_ticks = @ + 1,
                        !.sup_log = Append(@, [what |-> "healthy", slept |-> 0,
                                               before |-> ctl.backoff,
                                               backoff |-> BackoffStartMs])]
  /\ UNCHANGED <<sessVars, unitVars, net, wire>>

\* The orchestrator connection is lost: the stream ends or breaks
Kill(s, how) ==
  /\ s \in 1..Len(net)
  /\ net[s] = "up"
  /\ ctl.kills < MaxKills
  /\ net' = [net EXCEPT ![s] = how]
  /\ ctl' = [ctl EXCEPT !.kills = @ + 1]
  /\ UNCHANGED <<sessVars, unitVars, wire>>

NextCtl ==
  \/ CtlConnect
  \/ WriteStep
  \/ \E s \in 1..MaxStreams : RecvLost(s)
  \/ \E v \in FeatureValues : SendFeature(v)
  \/ FeatureTick
  \/ Supervise
  \/ \E s \in 1..MaxStreams, how \in {"eos", "err"} : Kill(s, how)

CtlSpec == Init /\ [][NextCtl]_vars

\* The supervisor polls every 0.1 s for as long as the client is open
CtlFairSpec == CtlSpec /\ WF_vars(Supervise)

\* The reconnect supervisor with attempts that fail, over connection losses
NextSuper ==
  \/ CtlConnect
  \/ WriteStep
  \/ \E s \in 1..MaxStreams : RecvLost(s)
  \/ Supervise
  \/ SuperviseFail
  \/ SuperviseHealthy
  \/ send_tts_event
  \/ \E s \in 1..MaxStreams, how \in {"eos", "err"} : Kill(s, how)

SuperSpec == Init /\ [][NextSuper]_vars

\* ------------------------------------------------------------ session
\* TTS lifecycle: the greeting, start_tts commands, the pipelines and stop commands
Next ==
  \/ GreetingStart
  \/ RecvStartTts
  \/ \E u \in Utt : DebounceExpire(u)
  \/ \E u \in Utt : DeliverCancel(u)
  \/ \E u \in Utt : ProducerEnd(u)
  \/ \E u \in Utt : PrebufferExit(u)
  \/ \E u \in Utt, ok \in BOOLEAN : GetFrameSend(u, ok)
  \/ \E u \in Utt : GetFrameWait(u)
  \/ \E u \in Utt : GetSentinel(u)
  \/ \E u \in Utt : GetTimeout(u)
  \/ \E u \in Utt, ok \in BOOLEAN : PaceElapsed(u, ok)
  \/ \E u \in Utt : PaceWoken(u)
  \/ \E u \in Utt : CleanupResume(u)
  \/ IdleStopWake
  \/ RecvStopTts
  \/ ObserverStopTts

Spec == Init /\ [][Next]_vars

\* Barge-in: the pipelines together with the audio thread and the clock
NextBarge ==
  \/ now < BargeTicks /\ Tick
  \/ GreetingStart
  \/ nStart < BargeStartTts /\ RecvStartTts
  \/ \E u \in Utt : DebounceExpire(u)
  \/ \E u \in Utt : ProducerEnd(u)
  \/ \E u \in Utt : PrebufferExit(u)
  \/ \E u \in Utt, ok \in BOOLEAN : GetFrameSend(u, ok)
  \/ \E u \in Utt : GetFrameWait(u)
  \/ \E u \in Utt : GetSentinel(u)
  \/ \E u \in Utt : GetTimeout(u)
  \/ \E u \in Utt, ok \in BOOLEAN : PaceElapsed(u, ok)
  \/ \E u \in Utt : PaceWoken(u)
  \/ \E u \in Utt : CleanupResume(u)
  \/ IdleStopWake
  \/ RunPostedStop
  \/ \E r \in QuietRms : FrameSample(r)
  \/ \E r \in LoudRms : VadStart(r)
  \/ Gate

InitBarge == InitSess /\ require_interim = FALSE /\ InitCtl /\ InitUnits

BargeSpec == InitBarge /\ [][NextBarge]_vars

\* The gate and its knobs during the greeting
NextGate ==
  \/ Tick
  \/ GreetingStart
  \/ \E u \in Utt : ProducerEnd(u)
  \/ \E u \in Utt : PrebufferExit(u)
  \/ \E u \in Utt, ok \in BOOLEAN : GetFrameSend(u, ok)
  \/ \E u \in Utt : GetFrameWait(u)
  \/ \E u \in Utt : GetSentinel(u)
  \/ \E u \in Utt : GetTimeout(u)
  \/ \E u \in Utt, ok \in BOOLEAN : PaceElapsed(u, ok)
  \/ \E u \in Utt : PaceWoken(u)
  \/ \E u \in Utt : CleanupResume(u)
  \/ IdleStopWake
  \/ RunPostedStop
  \/ \E g \in ArmGuardValues, m \in ArmMinRmsValues : RecvArmBargeIn(g, m)
  \/ \E b \in BOOLEAN : ObserverPolicy(b)
  \/ \E n \in InterimLens : SttInterim(n)
  \/ \E r \in RmsValues : FrameSample(r)
  \/ \E r \in RmsValues : VadStart(r)
  \/ Gate

InitGate == InitSess /\ require_interim \in BOOLEAN /\ InitCtl /\ InitUnits

GateSpec == InitGate /\ [][NextGate]_vars

\* ============================================================ process
\* main() from its first line to the process's exit code (asyncio.run in __main__)
\* asyncio.run(main()) raised: except Exception -> sys.exit(1)
ExitRaised(cause) == [proc EXCEPT !.pc = "exited", !.cause = cause, !.exit_code = 1]

\* main() returned: asyncio.run returns and the interpreter exits with status 0
ExitReturned(cause) == [proc EXCEPT !.pc = "exited", !.cause = cause, !.exit_code = 0]

\* required_env(name): raises RuntimeError when the setting is missing or empty;
\* after the fourth one main() creates the run_ws task when WS_URL is set
required_env ==
  /\ proc.pc = "start"
  /\ proc' = IF ~proc.env[proc.read + 1] THEN ExitRaised("missing_env")
             ELSE IF proc.read + 1 < Len(EnvNames) THEN [proc EXCEPT !.read = @ + 1]
             ELSE [proc EXCEPT !.read = @ + 1, !.pc = "join",
                               !.ws_task = IF proc.ws_url THEN "running" ELSE "none"]
  /\ UNCHANGED <<sessVars, ctlVars, producer, playback, ring, vad, prebuf, mgr>>

\* run_ws: websockets.connect or a send/receive raises; the task ends with the exception
WsFail ==
  /\ proc.ws_task = "running"
  /\ proc.pc # "exited"
  /\ proc' = [proc EXCEPT !.ws_task = "failed"]
  /\ UNCHANGED <<sessVars, ctlVars, producer, playback, ring, vad, prebuf, mgr>>

\* try_join_daily in the executor: on an exception main() logs bot_exit and returns
JoinDaily(ok) ==
  /\ proc.pc = "join"
  /\ proc' = IF ok THEN [proc EXCEPT !.pc = "wait_participant"]
             ELSE ExitReturned("join_failed")
  /\ UNCHANGED <<sessVars, ctlVars, producer, playback, ring, vad, prebuf, mgr>>

\* transport.wait_for_participant: on a timeout main() logs bot_exit and returns
WaitForParticipant(found) ==
  /\ proc.pc = "wait_participant"
  /\ proc' = IF found THEN [proc EXCEPT !.pc = "greeting"]
             ELSE ExitReturned("participant_timeout")
  /\ UNCHANGED <<sessVars, ctlVars, producer, playback, ring, vad, prebuf, mgr>>

\* The idle loop from `now = time.time()` to the wait on the stop signal or the
\* break.  `racing`: the audio thread begins an STT utterance (on_frame, line 515)
\* after the loop has read active_utterance_id for the activity refresh and
\* before the exit tests.  After a break: ws_task.cancel(); await ws_task
\* re-raises the exception of a run_ws task that had failed
IdleTop(p, racing) ==
  LET busy == p.speaking \/ p.active_utterance_id # ""
      last == IF busy THEN p.now_s ELSE p.last_activity_s
      idle_for == Max(0, p.now_s - last)
      p1 == [p EXCEPT !.last_activity_s = last,
                      !.quiet_s = IF p.speaking \/ p.active_utterance_id = "tts"
                                  THEN p.now_s ELSE @,
                      !.active_utterance_id = IF racing THEN "stt" ELSE @]
      cap == p.stay_s > 0 /\ p.now_s >= p.stay_s /\ idle_for >= p.idle_exit_s /\ ~p1.speaking
      idle == idle_for >= p.idle_exit_s /\ ~p1.speaking /\ p1.active_utterance_id = ""
  IN IF cap \/ idle
     THEN [p1 EXCEPT !.pc = "exited", !.cause = IF cap THEN "stay_cap" ELSE "idle",
                     !.exit_code = IF p.ws_task = "failed" THEN 1 ELSE 0]
     ELSE p1

\* the greeting's try block: an exception is logged as publish_send_failed and
\* main() returns; otherwise main() enters the idle loop
GreetingOutcome(ok) ==
  /\ proc.pc = "greeting"
  /\ proc' = IF ok THEN IdleTop([proc EXCEPT !.pc = "idle"], FALSE)
             ELSE ExitReturned("publish_send_failed")
  /\ UNCHANGED <<sessVars, ctlVars, producer, playback, ring, vad, prebuf, mgr>>

\* the idle loop's wait returns, after 1 s or because the stop signal is set (then
\* last_activity_ms is refreshed and the signal cleared), and the loop goes round
IdleLoop(by, racing) ==
  /\ proc.pc = "idle"
  /\ racing => (~proc.speaking /\ proc.active_utterance_id = "")
  /\ IF by = "stop"
     THEN /\ proc.stop_event
          /\ proc' = IdleTop([proc EXCEPT !.last_activity_s = proc.now_s,
                                          !.quiet_s = proc.now_s,
                                          !.stop_event = FALSE], racing)
     ELSE /\ ~proc.stop_event
          /\ proc.now_s < MaxIdleSecs
          /\ proc' = IdleTop([proc EXCEPT !.now_s = @ + 1], racing)
  /\ UNCHANGED <<sessVars, ctlVars, producer, playback, ring, vad, prebuf, mgr>>

\* what goes on around the idle loop: on_frame begins an STT utterance and writes
\* its id; _on_start_tts marks activity; its flush sets speaking and the id; the
\* flush's finally resets them, after tts_streaming_play has cleared the stop
\* signal; the orchestrator's stop_tts sets the stop signal
IdleEvent(what) ==
  /\ proc.pc = "idle"
  /\ CASE what = "stt_start" ->
            /\ proc.active_utterance_id # "stt"
            /\ proc' = [proc EXCEPT !.active_utterance_id = "stt"]
       [] what = "start_tts" ->
            /\ proc.last_activity_s # proc.now_s
            /\ proc' = [proc EXCEPT !.last_activity_s = proc.now_s, !.quiet_s = proc.now_s]
       [] what = "flush" ->
            /\ ~proc.speaking
            /\ proc' = [proc EXCEPT !.speaking = TRUE, !.active_utterance_id = "tts"]
       [] what = "flush_end" ->
            /\ proc.speaking
            /\ proc' = [proc EXCEPT !.speaking = FALSE, !.active_utterance_id = "",
                                    !.stop_event = FALSE]
       [] what = "stop_tts" ->
            /\ ~proc.stop_event
            /\ proc' = [proc EXCEPT !.stop_event = TRUE]
  /\ UNCHANGED <<sessVars, ctlVars, producer, playback, ring, vad, prebuf, mgr>>

NextProc ==
  \/ required_env
  \/ WsFail
  \/ \E ok \in BOOLEAN : JoinDaily(ok)
  \/ \E found \in BOOLEAN : WaitForParticipant(found)
  \/ \E ok \in BOOLEAN : GreetingOutcome(ok)
  \/ \E by \in {"timeout", "stop"}, racing \in BOOLEAN : IdleLoop(by, racing)
  \/ \E what \in {"stt_start", "start_tts", "flush", "flush_end", "stop_tts"} : IdleEvent(what)

\* every combination of present and missing mandatory settings, WS_URL set or not
InitProc ==
  /\ InitSess /\ require_interim = TRUE /\ InitCtl
  /\ proc \in {[NoProc EXCEPT !.env = e, !.ws_url = w, !.idle_exit_s = x, !.stay_s = y] :
                 e \in [1..Len(EnvNames) -> BOOLEAN], w \in BOOLEAN,
                 x \in {0, 2}, y \in {0, 3}}
  /\ producer = NoProducer
  /\ playback = NoPlayback
  /\ ring = NoRing
  /\ vad = NoVad
  /\ prebuf = NoPrebuf
  /\ mgr = NoMgr

ProcSpec == InitProc /\ [][NextProc]_vars

\* ============================================================ frames
\* slice_frames(pcm16_bytes, frame_bytes): the complete frames cut from the front
\* of the buffer, in order, and what is left of the buffer
RECURSIVE slice_frames(_, _)
slice_frames(pcm16_bytes, frame_bytes) ==
  IF Len(pcm16_bytes) >= frame_bytes
  THEN LET chunk == SubSeq(pcm16_bytes, 1, frame_bytes)
           more == slice_frames(SubSeq(pcm16_bytes, frame_bytes + 1, Len(pcm16_bytes)),
                                frame_bytes)
       IN [frames |-> <<chunk>> \o more.frames, rest |-> more.rest]
  ELSE [frames |-> <<>>, rest |-> pcm16_bytes]

\* aligned_len = (len(raw_buf) // 2) * 2
AlignedLen(raw_buf) == (Len(raw_buf) \div 2) * 2

\* what a mutant of RawRest keeps: nothing
RawRestDropped(raw_buf, aligned_len) == <<>>

\* del raw_buf[:aligned_len]
RawRest(raw_buf, aligned_len) == SubSeq(raw_buf, aligned_len + 1, Len(raw_buf))

Frame(data) == [kind |-> "frame", data |-> data]
Sentinel == [kind |-> "sentinel", data |-> <<>>]

\* queue.put(None) on the way out, and the producer function returns
PutSentinel(p, how) == [p EXCEPT !.queue = Append(@, Sentinel), !.pc = "done", !.exit = how]

\* requests.post(...) and resp.raise_for_status(): an HTTP error raises into the
\* outer except, which puts the sentinel
HttpResponse(ok) ==
  /\ producer.pc = "request"
  /\ producer' = IF ok THEN [producer EXCEPT !.pc = "stream"]
                 ELSE PutSentinel(producer, "exception")
  /\ UNCHANGED <<sessVars, ctlVars, proc, playback, ring, vad, prebuf, mgr>>

\* one iteration of `for chunk in resp.iter_content(...)` for a chunk of k bytes;
\* fail > 0: the put of the fail-th frame of this iteration raises, and the
\* producer returns
StreamChunk(k, fail) ==
  /\ producer.pc = "stream"
  /\ producer.chunk_count < MaxChunks
  /\ LET chunk == [i \in 1..k |-> producer.received + i]
         p1 == [producer EXCEPT !.chunk_count = @ + 1, !.received = @ + k]
         raw == producer.raw_buf \o chunk
         aligned_len == AlignedLen(raw)
         sl == slice_frames(producer.out_buf \o SubSeq(raw, 1, aligned_len), FrameBytes)
         put(n) == [i \in 1..n |-> Frame(sl.frames[i])]
     IN /\ fail <= Len(sl.frames)
        /\ (fail > 0) => (~producer.stop_flag /\ k > 0 /\ aligned_len > 0)
        /\ producer' =
             IF producer.stop_flag THEN PutSentinel(p1, "stop_flag")
             ELSE IF k = 0 THEN p1
             ELSE IF aligned_len = 0 THEN [p1 EXCEPT !.raw_buf = raw]
             ELSE IF fail > 0
               THEN [p1 EXCEPT !.raw_buf = RawRest(raw, aligned_len),
                               !.out_buf = <<>>,
                               !.queue = @ \o put(fail - 1),
                               !.pc = "done", !.exit = "put_failed"]
             ELSE [p1 EXCEPT !.raw_buf = RawRest(raw, aligned_len),
                             !.out_buf = sl.rest,
                             !.queue = @ \o put(Len(sl.frames))]
  /\ UNCHANGED <<sessVars, ctlVars, proc, playback, ring, vad, prebuf, mgr>>

\* the response ends: the loop is left and the sentinel is put
StreamEnd ==
  /\ producer.pc = "stream"
  /\ producer' = PutSentinel(producer, "finished")
  /\ UNCHANGED <<sessVars, ctlVars, proc, playback, ring, vad, prebuf, mgr>>

\* reading the response raises: the outer except puts the sentinel
StreamError ==
  /\ producer.pc = "stream"
  /\ producer' = PutSentinel(producer, "exception")
  /\ UNCHANGED <<sessVars, ctlVars, proc, playback, ring, vad, prebuf, mgr>>

\* tts_streaming_play's finally: stop_flag.set()
SetStopFlag ==
  /\ ~producer.stop_flag
  /\ producer.pc # "done"
  /\ producer' = [producer EXCEPT !.stop_flag = TRUE]
  /\ UNCHANGED <<sessVars, ctlVars, proc, playback, ring, vad, prebuf, mgr>>

\* the consumer dequeues the next item; a frame goes to transport.send_audio_pcm16
ConsumerSend ==
  /\ producer.taken < Len(producer.queue)
  /\ LET frm == producer.queue[producer.taken + 1]
     IN producer' = [producer EXCEPT !.taken = @ + 1,
                       !.sent = IF frm.kind = "frame" THEN Append(@, Len(frm.data)) ELSE @]
  /\ UNCHANGED <<sessVars, ctlVars, proc, playback, ring, vad, prebuf, mgr>>

\* playback_task is called with the fetched PCM bytes
\* (or the play phase of tts_streaming_play is entered):
\* next_frame_time = time.monotonic()
PlaybackStart ==
  /\ playback.pc = "none"
  /\ playback' = [playback EXCEPT !.pc = "loop", !.anchor = playback.now_ms,
                                  !.next_frame_time = playback.now_ms]
  /\ UNCHANGED <<sessVars, ctlVars, proc, producer, ring, vad, prebuf, mgr>>

\* stop_event is set while playback_task runs
PlaybackStop ==
  /\ playback.pc = "loop"
  /\ ~playback.stop
  /\ playback' = [playback EXCEPT !.stop = TRUE]
  /\ UNCHANGED <<sessVars, ctlVars, proc, producer, ring, vad, prebuf, mgr>>

\* one iteration of `while pos < len(pcm16_bytes)` of playback_task:
\* wait for next_frame_time when it is more than 5 ms away, the wait ending
\* at the timeout or, stop_in, when stop_event is set t ms into it;
\* next_frame_time += frame_duration;
\* chunk = pcm16_bytes[pos:pos + bytes_per_frame]; pos += bytes_per_frame;
\* a send that takes send_ms
PlaybackFrame(send_ms, stop_in, t) ==
  /\ playback.pc = "loop"
  /\ playback.path = "fetched"
  /\ LET chunk_len == IF playback.pos + FrameBytes <= playback.pcm_len
                      THEN FrameBytes ELSE playback.pcm_len - playback.pos
         sleep_time == playback.next_frame_time - playback.now_ms
         waits == sleep_time > PaceSlackMs
         woken == waits /\ stop_in /\ t < sleep_time
         at == IF woken THEN playback.now_ms + t
               ELSE IF waits THEN playback.next_frame_time ELSE playback.now_ms
     IN playback' =
          IF playback.pos >= playback.pcm_len \/ playback.stop
          THEN [playback EXCEPT !.pc = "done"]
          ELSE [playback EXCEPT !.pos = @ + FrameBytes, !.sent = Append(@, chunk_len),
                                !.stop = woken,
                                !.next_frame_time = @ + FrameDurationMs,
                                !.pub = Append(@, at),
                                !.now_ms = at + send_ms]
  /\ UNCHANGED <<sessVars, ctlVars, proc, producer, ring, vad, prebuf, mgr>>

\* one iteration of `while not stop_event.is_set()` of tts_streaming_play over
\* a queue of pcm_len \div 1920 frames and the sentinel: a queue.get() that
\* takes dq_ms; on a frame, the wait as above but left with break when
\* stop_event is set during it; a send that takes send_ms;
\* next_frame_time += frame_duration
PlayFrame(dq_ms, send_ms, stop_in, t) ==
  /\ playback.pc = "loop"
  /\ playback.path = "streaming"
  /\ LET t_now == playback.now_ms + dq_ms
         sleep_time == playback.next_frame_time - t_now
         waits == sleep_time > PaceSlackMs
         woken == waits /\ stop_in /\ t < sleep_time
         at == IF waits THEN playback.next_frame_time ELSE t_now
     IN playback' =
          IF playback.stop
          THEN [playback EXCEPT !.pc = "done"]
          ELSE IF playback.pos + FrameBytes > playback.pcm_len     \* frm is None
          THEN [playback EXCEPT !.pc = "done", !.now_ms = t_now]
          ELSE IF woken
          THEN [playback EXCEPT !.pc = "done", !.stop = TRUE, !.now_ms = t_now + t]
          ELSE [playback EXCEPT !.pos = @ + FrameBytes, !.sent = Append(@, FrameBytes),
                                !.pub = Append(@, at),
                                !.now_ms = at + send_ms,
                                !.next_frame_time = @ + FrameDurationMs]
  /\ UNCHANGED <<sessVars, ctlVars, proc, producer, ring, vad, prebuf, mgr>>

NextFrames ==
  \/ \E ok \in BOOLEAN : HttpResponse(ok)
  \/ \E k \in ChunkSizes, fail \in 0..1 : StreamChunk(k, fail)
  \/ StreamEnd
  \/ StreamError
  \/ SetStopFlag
  \/ ConsumerSend
  \/ PlaybackStart
  \/ PlaybackStop
  \/ PlaybackFrame(0, FALSE, 0)

\* one TTS response of any chunking, and fetched PCM of any of the lengths
InitFrames ==
  /\ InitSess /\ require_interim = TRUE /\ InitCtl
  /\ proc = NoProc
  /\ producer = NoProducer
  /\ playback \in {[NoPlayback EXCEPT !.pcm_len = n] : n \in PcmLens}
  /\ ring = NoRing
  /\ vad = NoVad
  /\ prebuf = NoPrebuf
  /\ mgr = NoMgr

FrameSpec == InitFrames /\ [][NextFrames]_vars

\* the two pacing loops under sends and dequeues of any of the latencies, with
\* stop_event set between iterations or 1 or 10 ms into a wait
NextPace ==
  \/ PlaybackStart
  \/ PlaybackStop
  \/ \E send_ms \in LatencyMs, stop_in \in BOOLEAN, t \in {1, 10} :
       PlaybackFrame(send_ms, stop_in, t)
  \/ \E dq_ms \in LatencyMs, send_ms \in LatencyMs, stop_in \in BOOLEAN, t \in {1, 10} :
       PlayFrame(dq_ms, send_ms, stop_in, t)

\* either loop, entered at any of two clock readings
InitPace ==
  /\ InitSess /\ require_interim = TRUE /\ InitCtl
  /\ proc = NoProc
  /\ producer = NoProducer
  /\ playback \in {[NoPlayback EXCEPT !.path = p, !.pcm_len = n, !.now_ms = t0] :
                     p \in {"fetched", "streaming"}, n \in PcmLens, t0 \in {0, 3}}
  /\ ring = NoRing
  /\ vad = NoVad
  /\ prebuf = NoPrebuf
  /\ mgr = NoMgr

PaceSpec == InitPace /\ [][NextPace]_vars

\* ============================================================ ring buffer
\* while len(self._q) > self.hard_cap_frames: self._q.popleft()
RECURSIVE PopToCap(_, _)
PopToCap(q, hard_cap_frames) ==
  IF Len(q) > hard_cap_frames THEN PopToCap(Tail(q), hard_cap_frames) ELSE q

\* RingBuffer.push(frame_bytes): the object afterwards
Pushed(r) ==
  [r EXCEPT !.seq = @ + 1,
            !.before = r.q,
            !.q = PopToCap(Append(r.q, r.seq + 1), r.hard_cap_frames)]

\* RingBuffer.push(frame_bytes)
push ==
  /\ ring.seq < MaxPush
  /\ ring' = Pushed(ring)
  /\ UNCHANGED <<sessVars, ctlVars, proc, producer, playback, vad, prebuf, mgr>>

\* RingBuffer.flush_all()
flush_all ==
  /\ ring' = FlushAll(ring)
  /\ UNCHANGED <<sessVars, ctlVars, proc, producer, playback, vad, prebuf, mgr>>

NextRing ==
  \/ push
  \/ flush_all

\* a ring buffer of any of the configurations
InitRing ==
  /\ InitSess /\ require_interim = TRUE /\ InitCtl
  /\ proc = NoProc
  /\ producer = NoProducer
  /\ playback = NoPlayback
  /\ ring \in {RingBufferInit(c, h, f) :
                 c \in CapacityMsValues, h \in HardCapMsValues, f \in FrameMsValues}
  /\ vad = NoVad
  /\ prebuf = NoPrebuf
  /\ mgr = NoMgr

RingSpec == InitRing /\ [][NextRing]_vars

\* ============================================================ VAD engine
\* what a mutant of IdleUnvoiced leaves of consec_speech: all of it
IdleUnvoicedKeeps(v) == v

\* process_frame, not speaking, frame not speech: self.consec_speech = 0
IdleUnvoiced(v) == [v EXCEPT !.consec_speech = 0]

\* what a mutant of BurstLongEnough answers: always yes
BurstAny(dur_frames, min_burst_frames) == TRUE

\* process_frame: `if dur_frames < self.min_burst_frames: return None` fails
BurstLongEnough(dur_frames, min_burst_frames) == ~(dur_frames < min_burst_frames)

\* what a mutant of UtteranceTimedOut answers: never
NeverTimedOut(utterance_dur_ms, max_utterance_ms) == FALSE

\* process_frame: utterance_dur_ms >= self.max_utterance_ms
UtteranceTimedOut(utterance_dur_ms, max_utterance_ms) == utterance_dur_ms >= max_utterance_ms

\* VADState.process_frame(pcm16_bytes, sample_rate) at wall-clock time now_ms:
\* the object afterwards and the event returned
ProcessFrame(v0, is_speech, now_ms) ==
  LET v == [v0 EXCEPT !.frame_count = @ + 1]
      idle == [v EXCEPT !.speaking = FALSE, !.consec_speech = 0, !.non_speech = 0]
  IN IF ~v.speaking
     THEN IF is_speech
          THEN IF v.consec_speech + 1 >= v.min_start_frames
               THEN [v |-> [v EXCEPT !.consec_speech = @ + 1, !.speaking = TRUE,
                                      !.started_at_ms = now_ms, !.non_speech = 0],
                     ev |-> "start"]
               ELSE [v |-> [v EXCEPT !.consec_speech = @ + 1], ev |-> "none"]
          ELSE [v |-> IdleUnvoiced(v), ev |-> "none"]
     ELSE IF UtteranceTimedOut(now_ms - v.started_at_ms, v.max_utterance_ms)
          THEN [v |-> idle, ev |-> "end"]
          ELSE IF is_speech
          THEN [v |-> [v EXCEPT !.non_speech = 0], ev |-> "none"]
          ELSE IF v.non_speech + 1 >= v.hangover_frames
          THEN [v |-> idle,
                ev |-> IF BurstLongEnough((now_ms - v.started_at_ms) \div v.frame_ms,
                                          v.min_burst_frames)
                       THEN "end" ELSE "none"]
          ELSE [v |-> [v EXCEPT !.non_speech = @ + 1], ev |-> "none"]

\* the audio thread hands one frame to process_frame; a classifier error counts
\* as not speech
process_frame(voicing, step) ==
  /\ vad.frame_count < MaxVadFrames
  /\ LET now_ms == vad.clock + step
         r == ProcessFrame(vad, voicing = "voiced", now_ms)
         heard == Append(vad.heard, voicing = "voiced")
         moved == r.v.speaking # vad.speaking
     IN vad' = [r.v EXCEPT
                  !.clock = now_ms,
                  !.heard = IF moved THEN <<>> ELSE heard,
                  !.start_ms = IF r.ev = "start" THEN now_ms ELSE @,
                  !.min_changed = IF moved THEN FALSE ELSE @,
                  !.last = [ev |-> r.ev, at_ms |-> now_ms, was_speaking |-> vad.speaking,
                            start_ms |-> vad.start_ms, heard |-> heard,
                            min_start_frames |-> vad.min_start_frames,
                            min_changed |-> vad.min_changed]]
  /\ UNCHANGED <<sessVars, ctlVars, proc, producer, playback, ring, prebuf, mgr>>

\* main(): vad.min_start_frames is raised for the greeting and restored after it
SetMinStartFrames(n) ==
  /\ vad.min_start_frames # n
  /\ vad' = WithMinStartFrames(vad, n)
  /\ UNCHANGED <<sessVars, ctlVars, proc, producer, playback, ring, prebuf, mgr>>

\* VADManager.on_frame after a start it does not take up (RMS too low for STT):
\* the engine is put back to IDLE
SuppressStart ==
  /\ vad.last.ev = "start"
  /\ vad.speaking
  /\ vad' = [vad EXCEPT !.speaking = FALSE, !.consec_speech = 0, !.non_speech = 0,
                        !.heard = <<>>, !.min_changed = FALSE,
                        !.last = [@ EXCEPT !.ev = "none"]]
  /\ UNCHANGED <<sessVars, ctlVars, proc, producer, playback, ring, prebuf, mgr>>

NextVad ==
  \/ \E voicing \in Voicings, step \in VadClockSteps : process_frame(voicing, step)
  \/ \E n \in MinStartFramesValues : SetMinStartFrames(n)
  \/ SuppressStart

\* a VAD engine of any of the configurations
InitVad ==
  /\ InitSess /\ require_interim = TRUE /\ InitCtl
  /\ proc = NoProc
  /\ producer = NoProducer
  /\ playback = NoPlayback
  /\ ring = NoRing
  /\ vad \in {VADStateInit(VadFrameMs, h, m) :
                h \in HangoverMsValues, m \in MaxUtteranceMsValues}
  /\ prebuf = NoPrebuf
  /\ mgr = NoMgr

VadSpec == InitVad /\ [][NextVad]_vars

\* ============================================================ prebuffer depth
\* prebuffer_target = int(os.environ.get('TTS_PREBUFFER_FRAMES',
\*                          str(state.get('tts_prebuffer_frames_next', 15))))
\* prebuffer_target = max(10, min(25, prebuffer_target))
PrebufferTarget(env, next) ==
  LET raw == IF env # 0 THEN env ELSE IF next # 0 THEN next ELSE PrebufferDefault
  IN Max(PrebufferMin, Min(PrebufferMax, raw))

\* the finally of tts_streaming_play: nxt for state['tts_prebuffer_frames_next']
PrebufferAdapt(prebuffer_target, underruns) ==
  IF underruns > 0 THEN Min(PrebufferMax, prebuffer_target + PrebufferUp)
  ELSE Max(PrebufferMin, prebuffer_target - PrebufferDown)

\* tts_streaming_play is entered: for the greeting first, then for each flush of
\* the start_tts accumulator, whose task replaces the one before it
StreamingPlayStart ==
  /\ Len(prebuf.plays) < MaxPlays
  /\ \A i \in 2..Len(prebuf.plays) : prebuf.plays[i].pc = "done"   \* earlier flush tasks
  /\ prebuf' = [prebuf EXCEPT !.plays = Append(@,
        [ pc |-> "prebuffer",
          prebuffer_target |-> PrebufferTarget(prebuf.env, prebuf.next),
          underruns |-> 0,
          after_done |-> \A i \in 1..Len(prebuf.plays) : prebuf.plays[i].pc = "done" ])]
  /\ UNCHANGED <<sessVars, ctlVars, proc, producer, playback, ring, vad, mgr>>

\* the prebuffer loop is left and the try block entered
PrebufferDone(i) ==
  /\ i \in 1..Len(prebuf.plays)
  /\ prebuf.plays[i].pc = "prebuffer"
  /\ prebuf' = [prebuf EXCEPT !.plays[i].pc = "play"]
  /\ UNCHANGED <<sessVars, ctlVars, proc, producer, playback, ring, vad, mgr>>

\* the flush task is cancelled while in the prebuffer loop, before the try block:
\* the finally does not run
CancelInPrebuffer(i) ==
  /\ i \in 2..Len(prebuf.plays)
  /\ prebuf.plays[i].pc = "prebuffer"
  /\ prebuf' = [prebuf EXCEPT !.plays[i].pc = "done"]
  /\ UNCHANGED <<sessVars, ctlVars, proc, producer, playback, ring, vad, mgr>>

\* the play loop is left, after an underrun (tm.inc_underrun(); break) or
\* otherwise, and the finally stores the depth for the next run
PlayEnd(i, underrun) ==
  /\ i \in 1..Len(prebuf.plays)
  /\ prebuf.plays[i].pc = "play"
  /\ LET n == IF underrun THEN 1 ELSE 0
     IN prebuf' = [prebuf EXCEPT
                     !.plays[i].pc = "done",
                     !.plays[i].underruns = n,
                     !.next = PrebufferAdapt(prebuf.plays[i].prebuffer_target, n)]
  /\ UNCHANGED <<sessVars, ctlVars, proc, producer, playback, ring, vad, mgr>>

NextPrebuf ==
  \/ StreamingPlayStart
  \/ \E i \in 1..MaxPlays : PrebufferDone(i)
  \/ \E i \in 1..MaxPlays : CancelInPrebuffer(i)
  \/ \E i \in 1..MaxPlays, underrun \in BOOLEAN : PlayEnd(i, underrun)

\* a session with TTS_PREBUFFER_FRAMES unset or set
InitPrebuf ==
  /\ InitSess /\ require_interim = TRUE /\ InitCtl
  /\ proc = NoProc
  /\ producer = NoProducer
  /\ playback = NoPlayback
  /\ ring = NoRing
  /\ vad = NoVad
  /\ prebuf \in {[NoPrebuf EXCEPT !.env = e] : e \in PrebufferEnvValues}
  /\ mgr = NoMgr

PrebufSpec == InitPrebuf /\ [][NextPrebuf]_vars

\* ============================================================ audio path
\* FrameBatcher.emit_ready() repeated `while chunk`: what is left in the buffer
\* (a target of 0 gives an empty chunk, which ends the loop at once)
EmitReady(buf, target) == IF target > 0 THEN buf % target ELSE buf

\* handle_frame, lines 784-813: the frame's way into the batcher before on_frame
SttStream(mg, rms) ==
  IF ~mg.stt_client THEN mg.buf
  ELSE IF mg.stt_continuous
  THEN EmitReady(IF mg.in_utterance \/ rms >= SilenceFloor
                 THEN mg.buf + Downsample16k(FrameBytes) ELSE mg.buf, mg.target)
  ELSE IF mg.in_utterance
  THEN EmitReady(mg.buf + Downsample16k(FrameBytes), mg.target)
  ELSE mg.buf

\* on_frame, VAD 'end', lines 571-579: flush the batcher, end the utterance
SttOnEnd(mg) ==
  LET lst == [ev |-> "end", rms |-> 0, in_cooldown |-> FALSE,
              was_in_utterance |-> mg.in_utterance, branch |-> "none", flushed |-> 0,
              start_sent |-> FALSE]
  IN IF ~mg.stt_continuous /\ mg.stt_client /\ mg.in_utterance
     THEN [mg EXCEPT !.buf = 0, !.in_utterance = FALSE, !.last = lst]
     ELSE [mg EXCEPT !.last = lst]

\* attach_candidate_vad.handle_frame for one 20 ms frame of the remote audio,
\* with the STT side of VADManager.on_frame: push to the ring, stream to the
\* batcher, run the VAD engine, begin / suppress / end the STT utterance.
\* (The session dict's side of on_frame is VadStart and Gate.)
handle_frame(voicing, rms, step) ==
  /\ mgr.frames < MaxAudioFrames
  /\ LET now_ms == vad.clock + step
         ring1 == Pushed(ring)
         added == mgr.stt_client /\ (mgr.in_utterance \/
                                      (mgr.stt_continuous /\ rms >= SilenceFloor))
         mg1 == [mgr EXCEPT !.frames = @ + 1, !.buf = SttStream(mgr, rms),
                            !.batched = IF added THEN Append(@, ring1.seq) ELSE @]
         r == ProcessFrame(vad, voicing = "voiced", now_ms)
         v1 == [r.v EXCEPT !.clock = now_ms]
         branch == SttBranch(mg1, rms, now_ms)
         quiet == [ev |-> "none", rms |-> 0, in_cooldown |-> FALSE,
                   was_in_utterance |-> mgr.in_utterance, branch |-> "none", flushed |-> 0,
                   start_sent |-> FALSE]
     IN CASE r.ev = "start" ->
               /\ mgr' = SttOnStart(mg1, ring1, rms, now_ms)
               /\ ring' = IF branch = "skip" THEN ring1 ELSE FlushAll(ring1)
               /\ vad' = IF branch = "suppress" THEN VadReset(v1) ELSE v1
          [] r.ev = "end" ->
               /\ mgr' = SttOnEnd(mg1)
               /\ ring' = ring1
               /\ vad' = v1
          [] OTHER ->
               /\ mgr' = [mg1 EXCEPT !.last = quiet]
               /\ ring' = ring1
               /\ vad' = v1
  /\ UNCHANGED <<sessVars, ctlVars, proc, producer, playback, prebuf>>

NextAudio ==
  \E voicing \in {"voiced", "unvoiced"}, rms \in AudioRmsValues, step \in AudioClockSteps :
    handle_frame(voicing, rms, step)

\* the audio path with the STT client there or not, VAD-bounded or continuous,
\* and a VAD engine with a short hangover
InitAudio ==
  /\ InitSess /\ require_interim = TRUE /\ InitCtl
  /\ proc = NoProc
  /\ producer = NoProducer
  /\ playback = NoPlayback
  /\ ring = NoRing
  /\ vad = VADStateInit(VadFrameMs, 2 * VadFrameMs, 30000)   \* WORKER_VAD_HANGOVER_MS=40
  /\ prebuf = NoPrebuf
  /\ mgr \in {[NoMgr EXCEPT !.stt_client = c, !.stt_continuous = k] :
                c \in BOOLEAN, k \in BOOLEAN}

AudioSpec == InitAudio /\ [][NextAudio]_vars

\* ============================================================ properties
\* The tts_stopped events of utterance u on the observer channel
Stopped(u) == SelectSeq(obs[u], LAMBDA e : e.type = "tts_stopped")

\* The lifecycle events of utterance u on the observer channel, by type
Lifecycle(u) ==
  LET ev == SelectSeq(obs[u], LAMBDA e : e.type \in {"tts_started", "tts_first_audio",
                                                     "tts_stopped"})
  IN [i \in 1..Len(ev) |-> ev[i].type]

\* C1: every started utterance gets exactly one tts_stopped: never two, and one
\* once its tts_streaming_play has been left
C1_ExactlyOneStopped ==
  \A u \in Utt :
    /\ Len(Stopped(u)) <= 1
    /\ (hist[u].started /\ hist[u].ended) => Len(Stopped(u)) = 1

\* C2: on the observer channel the events of an utterance come in the order
\* tts_started, at most one tts_first_audio, tts_stopped
C2_ObserverOrder ==
  \A u \in Utt :
    Lifecycle(u) \in { <<>>,
                       <<"tts_started">>,
                       <<"tts_started", "tts_first_audio">>,
                       <<"tts_started", "tts_stopped">>,
                       <<"tts_started", "tts_first_audio", "tts_stopped">> }

\* C3: when a local stop is decided while one utterance is in its prebuffer or
\* play phase, that utterance published its first frame at least guard_ms before
\* the handler's now_ms
C3_GuardSinceCurrentUtterance ==
  (gate.outcome = "triggered" /\ Cardinality(gate.playing) = 1) =>
    \A u \in gate.playing :
      /\ gate.first_pub[u] > 0
      /\ gate.at_ms - gate.first_pub[u] >= gate.guard_ms

\* C4: a local stop is decided only while armed and while some utterance that has
\* published a frame is still in its play phase
C4_LocalStopOnlyWhilePlaying ==
  gate.outcome = "triggered" =>
    /\ gate.armed
    /\ \E u \in gate.playing : gate.first_pub[u] > 0

\* C5: no local stop is decided for a VAD start whose guard_ok is false or whose
\* RMS is below the local_stop_min_rms the handler read
C5_NoTriggerWithoutGuardOrEnergy ==
  gate.outcome = "triggered" => (gate.guard_ok /\ gate.rms >= gate.min_rms)

\* C5 witness: a local stop decided under a guard that arm_barge_in changed
C5_Witness ==
  /\ gate.outcome = "triggered"
  /\ gate.guard_ms # DefaultGuardMs
  /\ posted > 0

\* C6: with local stop enabled and the dual-signal option on, a VAD start during
\* armed playback, after the guard, above the dynamic threshold and at most
\* interim_window_ms after an interim of at least min_interim_len characters
\* (both times on the loop clock) has interim_ok true and is triggered
C6_RecentInterimTriggers ==
  ( /\ gate.outcome # "none"
    /\ require_interim /\ gate.enabled /\ gate.tts_active /\ gate.armed
    /\ gate.guard_ok
    /\ 2 * gate.rms >= gate.dyn2
    /\ gate.interim_len >= MinInterimLen
    /\ (gate.at_ms - EpochOffset) - gate.interim_ts <= InterimWindowMs )
  => (gate.interim_ok /\ gate.outcome = "triggered")

\* C7: a tts_stopped carries barge_in_ms exactly when its reason is interrupted
\* and a VAD start was handled during the utterance
C7_BargeInIff ==
  \A u \in Utt :
    \A i \in 1..Len(Stopped(u)) :
      Stopped(u)[i].barge_in <=>
        (Stopped(u)[i].reason = "interrupted" /\ hist[u].vad_during)

\* C8: speaking_armed is true only while some utterance has published its first
\* frame and its tts_stopped has not been emitted
C8_ArmedInterval ==
  state.speaking_armed =>
    \E u \in Utt : hist[u].first_pub_ms > 0 /\ Stopped(u) = <<>> /\ u \in InPlay(pipe)

\* C9: a stop set during the prebuffer or play phase gives reason interrupted;
\* completed only after the sentinel; buffer_underrun only with no stop pending
C9_StopReason ==
  \A u \in Utt :
    \A i \in 1..Len(Stopped(u)) :
      /\ hist[u].stop_raised => Stopped(u)[i].reason = "interrupted"
      /\ Stopped(u)[i].reason = "completed" => hist[u].sentinel
      /\ Stopped(u)[i].reason = "buffer_underrun" => ~hist[u].stop_at_emit

\* C10: after a loss in mid-session (session_open was written on the first
\* stream), once the client holds a stream again and events wait in the write
\* queue (the replayed session_open, features), the write loop is there to write them
C10_WriterServesReconnect ==
  (Len(wire) > 0 /\ wire[1] # <<>> /\ ctl.call # 0 /\ ctl.write_queue # <<>>)
    => ctl.writer = "running"

\* C11: a fatal startup failure (a missing mandatory setting, a failed join) ends
\* the process with exit code 1, and exit code 0 comes only from another exit
C11_FatalStartupExitsOne ==
  proc.pc = "exited" =>
    /\ proc.cause \in {"missing_env", "join_failed"} => proc.exit_code = 1
    /\ proc.exit_code = 0 => proc.cause \notin {"missing_env", "join_failed"}

\* The bytes of the frames put on the queue, in order
RECURSIVE Enqueued(_)
Enqueued(q) ==
  IF q = <<>> THEN <<>>
  ELSE (IF Head(q).kind = "frame" THEN Head(q).data ELSE <<>>) \o Enqueued(Tail(q))

\* C12: every frame a TTS playback path hands to the transport, the last one of
\* an utterance included, is 1920 bytes long
C12_FramesAre1920 ==
  /\ \A i \in 1..Len(producer.sent) : producer.sent[i] = FrameBytes
  /\ \A i \in 1..Len(playback.sent) : playback.sent[i] = FrameBytes

\* C18: while the producer has not abandoned the stream, every frame on the queue
\* is 1920 bytes long and the frames together are the first
\* floor(received/1920)*1920 bytes of the stream, in order
C18_FramesArePrefix ==
  producer.exit \in {"none", "finished"} =>
    /\ \A i \in 1..Len(producer.queue) :
         producer.queue[i].kind = "frame" => Len(producer.queue[i].data) = FrameBytes
    /\ Enqueued(producer.queue) =
         [i \in 1..((producer.received \div FrameBytes) * FrameBytes) |-> i]

\* C18 witness: a stream of odd length, cut into odd-length chunks, ended with
\* two frames and the sentinel on the queue
C18_Witness ==
  /\ producer.exit = "finished"
  /\ producer.received % 2 = 1
  /\ producer.received > 2 * FrameBytes
  /\ Len(producer.queue) = 3

\* C19: when the producer has returned, the sentinel is on the queue and it is
\* the last item put
C19_SentinelLast ==
  producer.pc = "done" =>
    /\ producer.queue # <<>>
    /\ producer.queue[Len(producer.queue)].kind = "sentinel"
    /\ \A i \in 1..(Len(producer.queue) - 1) : producer.queue[i].kind = "frame"

\* C13: the ring buffer never holds more than hard_cap_ms / frame_ms frames, and
\* what a push leaves is the end of what it found followed by the new frame
C13_RingWithinHardCap ==
  /\ Len(ring.q) * ring.frame_ms <= ring.hard_cap_ms
  /\ (ring.seq > 0 /\ ring.q # <<>>) =>
       LET all == Append(ring.before, ring.seq)
       IN ring.q = SubSeq(all, Len(all) - Len(ring.q) + 1, Len(all))

RECURSIVE TrailingRun(_, _)
TrailingRun(heard, b) ==
  IF heard = <<>> \/ heard[Len(heard)] # b THEN 0
  ELSE 1 + TrailingRun(SubSeq(heard, 1, Len(heard) - 1), b)

\* C15: a start is emitted from IDLE only on a frame that ends a run of at least
\* min_start_frames voiced frames heard since IDLE was entered, and exactly
\* min_start_frames of them when that setting was not changed meanwhile
C15_StartAfterMinFrames ==
  vad.last.ev = "start" =>
    /\ ~vad.last.was_speaking
    /\ TrailingRun(vad.last.heard, TRUE) >= vad.last.min_start_frames
    /\ ~vad.last.min_changed =>
         TrailingRun(vad.last.heard, TRUE) = vad.last.min_start_frames

\* C15 witness: a start on the third voiced frame in a row, after an unvoiced one
C15_Witness ==
  /\ vad.last.ev = "start"
  /\ vad.last.min_start_frames = 3
  /\ Len(vad.last.heard) > 3

\* C16: an end emitted before the utterance is max_utterance_ms old comes on a
\* frame that ends a run of at least hangover_frames unvoiced frames, at least
\* min_burst_frames frame times after the start
C16_EndNeedsHangoverAndBurst ==
  (vad.last.ev = "end" /\ vad.last.at_ms - vad.last.start_ms < vad.max_utterance_ms) =>
    /\ vad.last.was_speaking
    /\ TrailingRun(vad.last.heard, FALSE) >= vad.hangover_frames
    /\ vad.last.at_ms - vad.last.start_ms >= vad.min_burst_frames * vad.frame_ms

\* C16 witness: an end by hangover, before the utterance timeout
C16_Witness ==
  /\ vad.last.ev = "end"
  /\ vad.last.at_ms - vad.last.start_ms < vad.max_utterance_ms
  /\ TrailingRun(vad.last.heard, FALSE) = vad.hangover_frames

\* C17: a frame processed while SPEAKING at or after started_at + max_utterance_ms,
\* voiced or not, gives end and leaves the engine IDLE
C17_MaxUtteranceForcesEnd ==
  (vad.last.was_speaking /\ vad.last.at_ms - vad.last.start_ms >= vad.max_utterance_ms) =>
    /\ vad.last.ev = "end"
    /\ ~vad.speaking

\* C17 witness: an end on a voiced frame, all frames since the start being voiced
C17_Witness ==
  /\ vad.last.ev = "end"
  /\ vad.last.heard # <<>>
  /\ TrailingRun(vad.last.heard, TRUE) = Len(vad.last.heard)

\* C20: every run's prebuffer target is within 10..25, and a run that starts when
\* the run before it is over uses min(25, t + 2) if that run, of target t, had an
\* underrun and max(10, t - 1) if it had none
C20_PrebufferAdaptation ==
  \A i \in 1..Len(prebuf.plays) :
    /\ prebuf.plays[i].prebuffer_target \in PrebufferMin..PrebufferMax
    /\ (i > 1 /\ prebuf.plays[i].after_done) =>
         LET t == prebuf.plays[i - 1].prebuffer_target
         IN prebuf.plays[i].prebuffer_target =
              (IF prebuf.plays[i - 1].underruns > 0
               THEN Min(PrebufferMax, t + PrebufferUp)
               ELSE Max(PrebufferMin, t - PrebufferDown))

\* C21: in every state of the session, speaking_armed implies speaking
C21_ArmedImpliesSpeaking == state.speaking_armed => state.speaking

\* C22: while speaking is true, active_utterance_id is the id of an utterance
\* whose tts_streaming_play is running (so it is not empty)
C22_SpeakingHasActiveUtterance ==
  state.speaking => state.active_utterance_id \in Running(pipe)

\* C23: every step that takes the VAD engine from SPEAKING to IDLE is a frame on
\* which the engine returns end
C23_IdleOnlyWithEnd ==
  [][(vad.speaking /\ ~vad'.speaking) => vad'.last.ev = "end"]_vars

\* C24: a VAD start whose gate has been decided either signalled the stop, when
\* local stop is enabled, speaking_armed, guard_ok, rms >= dyn_threshold and
\* interim_ok all held, or emitted vad_start_suppressed with the first failing
\* check of guard, energy, interim as its reason and incremented that reason's
\* suppression counter
C24_OneBargeInOutcome ==
  gate.at_ms > 0 =>
    IF gate.enabled /\ gate.armed /\ gate.guard_ok /\ 2 * gate.rms >= gate.dyn2
       /\ gate.interim_ok
    THEN gate.outcome = "triggered" /\ gate.counter = "vad_stops_allowed"
    ELSE \/ ~gate.guard_ok /\ gate.outcome = "guard" /\ gate.counter = "vad_suppressed_guard"
         \/ /\ gate.guard_ok /\ 2 * gate.rms < gate.dyn2
            /\ gate.outcome = "energy" /\ gate.counter = "vad_suppressed_energy"
         \/ /\ gate.guard_ok /\ 2 * gate.rms >= gate.dyn2 /\ ~gate.interim_ok
            /\ gate.outcome = "interim" /\ gate.counter = "vad_suppressed_interim"

\* C25: the VAD engine's min_start_frames is the while-TTS value (default 10)
\* whenever speaking is true and the default 2 whenever it is false
C25_MinStartFramesFollowsTts ==
  vad.min_start_frames =
    (IF state.speaking THEN Max(1, MinStartFramesWhileTts) ELSE DefaultMinStartFrames)

\* C26: with the STT client in VAD-bounded mode, a VAD start begins an STT
\* utterance (in_utterance set, the ring's contents moved to the batcher, start
\* sent) exactly when rms >= stt_min_rms and either no cooldown is running or
\* rms >= 2 * stt_min_rms; otherwise the engine is IDLE again, ring and batcher
\* are empty and the cooldown ends stt_suppression_cooldown_ms after the frame
C26_SttStartOrSuppress ==
  (mgr.last.ev = "start" /\ mgr.stt_client /\ ~mgr.stt_continuous) =>
    IF mgr.last.rms >= SttMinRms /\ (~mgr.last.in_cooldown \/ mgr.last.rms >= 2 * SttMinRms)
    THEN /\ mgr.in_utterance /\ mgr.last.start_sent
         /\ ring.q = <<>> /\ mgr.last.flushed = Len(ring.flushed) * FrameBytes
         /\ vad.speaking
    ELSE /\ ~vad.speaking /\ ring.q = <<>> /\ mgr.buf = 0
         /\ mgr.stt_suppression_until = vad.clock + SttCooldownMs

\* C27: after a captured frame has been handled the batcher holds less than one
\* batch of audio
C27_BatcherBelowOneBatch ==
  mgr.frames > 0 => mgr.buf < BatchMs * BytesPerMs

\* C28: every step on which tts_streaming_play is left, by whatever path, ends
\* with the producer stop flag set, speaking_armed false and the stop signal clear
C28_PlayCleanup ==
  [][\A u \in Utt :
       (~hist[u].ended /\ hist'[u].ended) =>
         (pipe'[u].stop_flag /\ ~state'.speaking_armed /\ ~stop_event')]_vars

C30_BackoffBounds ==
  /\ ctl.backoff \in BackoffStartMs..BackoffCapMs
  /\ \A i \in 1..Len(ctl.sup_log) :
       LET e == ctl.sup_log[i]
           prev == IF i = 1 THEN BackoffStartMs ELSE ctl.sup_log[i - 1].backoff
       IN /\ e.before = prev
          /\ e.backoff \in BackoffStartMs..BackoffCapMs
          /\ e.what = "failed" =>
                (e.slept = prev /\ e.backoff = (IF 2 * prev <= BackoffCapMs THEN 2 * prev
                                                ELSE BackoffCapMs))
          /\ e.what # "failed" => e.backoff = BackoffStartMs
  /\ (ctl.sup_log # <<>>) => ctl.backoff = ctl.sup_log[Len(ctl.sup_log)].backoff

\* C30 witness: a failed attempt made with the backoff already at the cap, and a
\* reconnect after failed attempts
C30_Witness ==
  /\ Len(ctl.sup_log) >= 2
  /\ \E i \in 1..Len(ctl.sup_log) :
       ctl.sup_log[i].what = "failed" /\ ctl.sup_log[i].before = BackoffCapMs
  /\ ctl.sup_log[Len(ctl.sup_log)].what = "reconnected"
  /\ ctl.sup_log[Len(ctl.sup_log)].before > BackoffStartMs

\* C35: at most one TTS utterance is in its prebuffer or play phase at any time
C35_OnePipelineAtATime == Cardinality(InPlay(pipe)) <= 1

\* C32: the idle loop is left only with speaking false and no active utterance;
\* when it is left by the hard cap, the session has also been idle for
\* idle_exit_s
C32_ExitOnlyWhenIdle ==
  (proc.pc = "exited" /\ proc.cause \in {"idle", "stay_cap"}) =>
    /\ ~proc.speaking /\ proc.active_utterance_id = ""
    /\ proc.now_s - proc.last_activity_s >= proc.idle_exit_s

\* C33: with no TTS speaking, the idle loop does not go on waiting once
\* idle_exit_s has passed since TTS, a start_tts or a stop signal last counted
\* as activity, whether or not the remote participant has spoken
C33_IdleExitInTime ==
  (proc.pc = "idle" /\ ~proc.speaking) => proc.now_s - proc.quiet_s <= proc.idle_exit_s

\* C36: when an utterance begins its prebuffer phase the stop signal is clear: a
\* stop raised for an earlier utterance, or with no utterance playing, is not
\* left for it
C36_NoStaleStop ==
  [][\A u \in Utt : (pipe[u].pc # "prebuffer" /\ pipe'[u].pc = "prebuffer") => ~stop_event']_vars

\* C31: every accepted start_tts text is either still in the accumulator or in
\* exactly one flushed utterance, each utterance holds consecutive texts in
\* arrival order, and a start_tts restarts the debounce timer only: the task it
\* cancels is one still in its debounce sleep, never one playing what it flushed
C31_DebounceFlush ==
  /\ [](\A k \in 1..nStart :
          Cardinality({u \in Utt : \E i \in 1..Len(hist[u].text) : hist[u].text[i] = k})
          + Cardinality({i \in 1..Len(state.tts_accum_buf) : state.tts_accum_buf[i] = k}) = 1)
  /\ [](\A u \in Utt : \A i \in 1..Len(hist[u].text) :
          hist[u].text[i] = hist[u].text[1] + i - 1)
  /\ [][\A u \in Utt :
          (~pipe[u].cancelled /\ pipe'[u].cancelled) => pipe[u].pc = "debounce"]_vars

\* C37: at most one receive loop is running at any time
C37_OneRecvLoop == Cardinality(ctl.readers) <= 1

\* C38: a call handle is cleared only by the receive loop reading that call, as
\* it ends, or by the write loop failing to write to it
C38_ClearedBySameCall ==
  [][(ctl.call # 0 /\ ctl'.call = 0) =>
       \/ (ctl.call \in ctl.readers /\ ctl.call \notin ctl'.readers)
       \/ (ctl.writer = "running" /\ ctl'.writer = "exited")]_vars

\* C39: on a stream the supervisor opened, no event enqueued while there was no
\* call is written before a session_open
C39_SessionOpenFirst ==
  \A s \in 2..Len(wire) : \A i \in 1..Len(wire[s]) :
    wire[s][i] = "tts_nocall" => \E j \in 1..(i - 1) : wire[s][j] = "session_open"

\* C40: in VAD-bounded mode an STT utterance is open only while the VAD engine
\* is in SPEAKING (once the remote speech has ended it has been drained), a
\* start is sent only with no utterance open, the batcher holds audio only
\* inside an utterance, and frames are added to the batcher in capture order,
\* none of them twice
C40_SttWellBracketed ==
  (mgr.stt_client /\ ~mgr.stt_continuous) =>
    /\ mgr.in_utterance => vad.speaking
    /\ mgr.last.start_sent => ~mgr.last.was_in_utterance
    /\ mgr.buf > 0 => mgr.in_utterance
    /\ \A i \in 1..Len(mgr.batched) : \A j \in 1..Len(mgr.batched) :
         i < j => mgr.batched[i] < mgr.batched[j]

\* C34: in either pacing loop the schedule is anchor + 20 ms per frame handed
\* to the transport, whatever the sends and dequeues took, and no frame is
\* handed over more than 5 ms before its place in the schedule
C34_AnchoredSchedule ==
  playback.pc # "none" =>
    /\ playback.next_frame_time = playback.anchor + Len(playback.pub) * FrameDurationMs
    /\ \A k \in 1..Len(playback.pub) :
         playback.pub[k] >= playback.anchor + (k - 1) * FrameDurationMs - PaceSlackMs

====
